---- MODULE Spec2Model ----
(***************************************************************************)
(* A model of the orchepy execution core: the retry executor, the          *)
(* automation interpreter, the case-state transaction and the transition   *)
(* orchestrator (create_case / move_case).                                 *)
(***************************************************************************)
EXTENDS Integers, Sequences, FiniteSets, TLC

VARIABLES
    clock,      \* the time NOW() and Utc::now() read (advanced by the statements that read it)
    retry,      \* one run of RetryExecutor::execute (config, loop state, result)
    exec,       \* one call of AutomationExecutor::execute_automations (or evaluate_condition)
    db_workflow,\* the row of orchepy_workflows
    db_cases,   \* orchepy_cases: case id -> committed row
    db_history, \* orchepy_case_history: the rows in insertion order
    db_lock,    \* case id -> the request whose open transaction holds the row lock (0: none)
    before_change, \* case id -> the phase the row held just before its last change
    reqs,       \* request -> the handler's position and locals
    emitted     \* the follow-on events and case webhooks spawned, by request

Min(a, b) == IF a <= b THEN a ELSE b

Last(s) == s[Len(s)]

(***************************************************************************)
(* engine/retry.rs : RetryExecutor                                         *)
(***************************************************************************)

\* Width of the u64 in `2u64.pow(attempt - 1)`.
U64Bits == 64

\* The cap of `delay_ms.min(60_000)`.
MaxDelayMs == 60000

\* Largest small max_attempts value tried.
MaxAttempts == 3

\* max_attempts values tried: the small ones, and one large enough that the
\* loop reaches an attempt number whose power of two leaves 64 bits.
AttemptChoices == (0..MaxAttempts) \cup {U64Bits + 2}

\* initial_delay_ms values tried.
DelayChoices == {0, 1, 10, 1000, 60000, 60001}

BackoffStrategy == {"fixed", "exponential"}

\* 2u64.pow(e). The value 2^e is kept as its exponent (2^63 is not a number
\* TLC can hold). For e >= 64 the product overflows u64: a build with
\* overflow checks panics, a build without them wraps to 0.
Pow2U64(e, overflow_checks) ==
    IF e < U64Bits THEN [kind |-> "pow2", exp |-> e]
    ELSE IF overflow_checks THEN [kind |-> "panic", exp |-> 0]
    ELSE [kind |-> "zero", exp |-> 0]

\* x * 2^e capped at MaxDelayMs, by e doublings that stop at the cap. This is
\* the exact value of x.saturating_mul(2^e).min(60_000) for e < 64: the product
\* only grows with each doubling and saturates at 2^64 - 1 > 60_000.
RECURSIVE MulPow2Capped(_, _)
MulPow2Capped(x, e) ==
    IF x >= MaxDelayMs THEN MaxDelayMs
    ELSE IF e = 0 THEN x
    ELSE MulPow2Capped(2 * x, e - 1)

\* base_delay.saturating_mul(multiplier).min(60_000)
SaturatingMulMin(base_delay, multiplier) ==
    IF multiplier.kind = "zero" THEN 0
    ELSE MulPow2Capped(base_delay, multiplier.exp)

\* RetryExecutor::calculate_delay(attempt), attempt >= 1.
\* Result: [panic |-> BOOLEAN, ms |-> the Duration in milliseconds].
calculate_delay(config, attempt, overflow_checks) ==
    IF config.backoff = "fixed"
    THEN [panic |-> FALSE, ms |-> Min(config.initial_delay_ms, MaxDelayMs)]
    ELSE LET multiplier == Pow2U64(attempt - 1, overflow_checks) IN
         IF multiplier.kind = "panic" THEN [panic |-> TRUE, ms |-> 0]
         ELSE [panic |-> FALSE,
               ms |-> SaturatingMulMin(config.initial_delay_ms, multiplier)]

NoResult == [kind |-> "none", from |-> 0]

RetryIdle ==
    [config |-> [max_attempts |-> 1, backoff |-> "fixed", initial_delay_ms |-> 0],
     overflow_checks |-> FALSE, pc |-> "idle", attempt |-> 1, calls |-> 0,
     first_ok |-> 0, sleeps |-> <<>>, result |-> NoResult]

\* The Err arm of the match in execute: give up, or sleep and count on.
RetryOnErr(r, n) ==
    IF r.attempt >= r.config.max_attempts
    THEN [r EXCEPT !.calls = n, !.pc = "done",
                   !.result = [kind |-> "err", from |-> n]]
    ELSE LET delay == calculate_delay(r.config, r.attempt, r.overflow_checks) IN
         IF delay.panic
         THEN [r EXCEPT !.calls = n, !.pc = "done",
                        !.result = [kind |-> "panic", from |-> n]]
         ELSE [r EXCEPT !.calls = n,
                        !.sleeps = Append(@, delay.ms),
                        !.attempt = @ + 1]

\* The Ok arm of the match in execute.
RetryOnOk(r, n) ==
    [r EXCEPT !.calls = n, !.pc = "done",
              !.first_ok = IF @ = 0 THEN n ELSE @,
              !.result = [kind |-> "ok", from |-> n]]

(***************************************************************************)
(* JSON values (serde_json::Value), tagged by the name of their one field: *)
(* [num |-> n], [str |-> s], [null |-> TRUE], [obj |-> record of values].  *)
(***************************************************************************)

None == "None"                      \* Option::None of an Option<String>

JNum(n) == [num |-> n]
JStr(s) == [str |-> s]
JNull == [null |-> TRUE]
JObj(r) == [obj |-> r]

IsNum(v) == DOMAIN v = {"num"}
IsStr(v) == DOMAIN v = {"str"}
IsObj(v) == DOMAIN v = {"obj"}

\* json!(opt) of an Option<String>
JOpt(s) == IF s = None THEN JNull ELSE JStr(s)

\* The characters of the strings that conditions of the model compare with
\* `contains` (TLA+ strings are atoms).
Chars(s) ==
    CASE s = "active" -> <<"a", "c", "t", "i", "v", "e">>
      [] s = "act" -> <<"a", "c", "t">>
      [] OTHER -> <<s>>

\* str::contains
StrContains(s, substr) ==
    LET a == Chars(s)
        b == Chars(substr)
    IN \E i \in 1..(Len(a) + 1) :
          /\ i + Len(b) - 1 <= Len(a)
          /\ SubSeq(a, i, i + Len(b) - 1) = b

(***************************************************************************)
(* models/automation.rs : actions and conditions, all of one record shape  *)
(***************************************************************************)

NoCondition ==
    [complex |-> FALSE, field |-> <<>>, operator |-> "", value |-> JNull,
     conditions |-> <<>>]

\* RetryConfig::default()
DefaultMaxAttempts == 3
DefaultDelayMs == 1000
DefaultRetry ==
    [enabled |-> FALSE, max_attempts |-> DefaultMaxAttempts,
     delay_ms |-> DefaultDelayMs]

BlankAction ==
    [type |-> "", id |-> None, use_response_from |-> None,
     retry |-> DefaultRetry, on_error |-> "stop", duration_ms |-> 0,
     condition |-> NoCondition, then |-> <<>>, has_else |-> FALSE,
     else |-> <<>>, phase |-> None, field |-> <<>>, value |-> JNull]

\* AutomationAction::Webhook
Webhook(id, use_response_from, retry_config, policy) ==
    [BlankAction EXCEPT !.type = "webhook", !.id = id,
                        !.use_response_from = use_response_from,
                        !.retry = retry_config, !.on_error = policy]

\* AutomationAction::Delay
Delay(duration_ms) ==
    [BlankAction EXCEPT !.type = "delay", !.duration_ms = duration_ms]

\* AutomationAction::Conditional with else: Some(..) / None
Conditional(condition, then, else) ==
    [BlankAction EXCEPT !.type = "conditional", !.condition = condition,
                        !.then = then, !.has_else = TRUE, !.else = else]

ConditionalNoElse(condition, then) ==
    [BlankAction EXCEPT !.type = "conditional", !.condition = condition,
                        !.then = then]

\* AutomationAction::MoveToPhase
MoveToPhase(phase) == [BlankAction EXCEPT !.type = "move_to_phase", !.phase = phase]

\* AutomationAction::SetField; the field is kept as field.split('.')
SetField(field, value) ==
    [BlankAction EXCEPT !.type = "set_field", !.field = field, !.value = value]

\* Condition::Simple / SimpleCondition; the field is kept as field.split('.')
Simple(field, operator, value) ==
    [NoCondition EXCEPT !.field = field, !.operator = operator, !.value = value]

\* Condition::Complex
Complex(operator, conditions) ==
    [NoCondition EXCEPT !.complex = TRUE, !.operator = operator,
                        !.conditions = conditions]

\* AutomationAction::id
ActionId(action) == IF action.type = "webhook" THEN action.id ELSE None

\* Every action stops the batch when it fails.
OnErrorAlwaysStop(action) == "stop"

\* AutomationAction::on_error
on_error(action) == IF action.type = "webhook" THEN action.on_error ELSE "continue"

\* CaseModification
ModMoveToPhase(phase) ==
    [type |-> "MoveToPhase", phase |-> phase, field |-> <<>>, value |-> JNull]
ModSetField(field, value) ==
    [type |-> "SetField", phase |-> None, field |-> field, value |-> value]

(***************************************************************************)
(* engine/automation_executor.rs : AutomationExecutor                      *)
(*                                                                         *)
(* The interpreter is a function of the batch, the case snapshot and the   *)
(* world it runs in. The world holds what the environment decides (which   *)
(* HTTP calls fail) and what the run does to it: the HTTP calls made, the  *)
(* sleeps taken (retry_sleeps: those between two attempts of a webhook),   *)
(* the actions executed (ran) and what the loops logged, in order.         *)
(***************************************************************************)

\* The world before a run: the HTTP calls numbered in `fails` get a non-2xx
\* answer or a transport error, every other call a 2xx answer.
NewWorld(fails) ==
    [fails |-> fails, calls |-> 0, http |-> <<>>, sleeps |-> <<>>,
     retry_sleeps |-> <<>>, log |-> <<>>, ran |-> <<>>]

Logged(world, path, ev) ==
    [world EXCEPT !.log = Append(@, [path |-> path, ev |-> ev])]

\* execute_action is entered for the action at `path`.
Ran(world, path, action) ==
    [world EXCEPT !.ran = Append(@, [path |-> path, action |-> action])]

OkValue(v) == [err |-> FALSE, val |-> v]
ErrValue == [err |-> TRUE, val |-> FALSE]

\* AutomationExecutor::get_field_value
RECURSIVE GetPath(_, _, _)
GetPath(current, parts, i) ==
    IF i > Len(parts) THEN OkValue(current)
    ELSE IF IsObj(current) /\ parts[i] \in DOMAIN current.obj
         THEN GetPath(current.obj[parts[i]], parts, i + 1)
         ELSE ErrValue

get_field_value(field, case) ==
    IF Len(field) = 0 THEN ErrValue
    ELSE CASE field[1] = "data" -> GetPath(case.data, field, 2)
           [] field[1] = "status" -> OkValue(JStr(case.status))
           [] field[1] = "current_phase" -> OkValue(JStr(case.current_phase))
           [] field[1] = "previous_phase" -> OkValue(JOpt(case.previous_phase))
           [] OTHER -> ErrValue

\* AutomationExecutor::evaluate_simple_condition
evaluate_simple_condition(field, operator, expected, case) ==
    LET got == get_field_value(field, case)
        actual_value == got.val
        numeric == IsNum(actual_value) /\ IsNum(expected)
    IN IF got.err THEN ErrValue
       ELSE CASE operator \in {"==", "="} -> OkValue(actual_value = expected)
              [] operator = "!=" -> OkValue(actual_value # expected)
              [] operator = ">" ->
                   IF numeric THEN OkValue(actual_value.num > expected.num) ELSE ErrValue
              [] operator = "<" ->
                   IF numeric THEN OkValue(actual_value.num < expected.num) ELSE ErrValue
              [] operator = ">=" ->
                   IF numeric THEN OkValue(actual_value.num >= expected.num) ELSE ErrValue
              [] operator = "<=" ->
                   IF numeric THEN OkValue(actual_value.num <= expected.num) ELSE ErrValue
              [] operator = "contains" ->
                   IF IsStr(actual_value) /\ IsStr(expected)
                   THEN OkValue(StrContains(actual_value.str, expected.str))
                   ELSE ErrValue
              [] OTHER -> ErrValue

\* The loops of evaluate_condition with the early returns left out: every
\* leaf is evaluated before the result is formed.
RECURSIVE EvalLeavesAll(_, _, _, _)
EvalLeavesAll(conditions, i, decides, case) ==
    IF i > Len(conditions) THEN OkValue(~decides)
    ELSE LET r == evaluate_simple_condition(conditions[i].field,
                      conditions[i].operator, conditions[i].value, case)
             rest == EvalLeavesAll(conditions, i + 1, decides, case)
         IN IF r.err \/ rest.err THEN ErrValue
            ELSE IF r.val = decides THEN OkValue(decides)
            ELSE rest

\* The loops of evaluate_condition over the leaves of a Complex condition:
\* the first leaf that errs, or that decides (false under AND, true under OR),
\* ends the loop.
RECURSIVE EvalLeaves(_, _, _, _)
EvalLeaves(conditions, i, decides, case) ==
    IF i > Len(conditions) THEN OkValue(~decides)
    ELSE LET r == evaluate_simple_condition(conditions[i].field,
                      conditions[i].operator, conditions[i].value, case)
         IN IF r.err THEN ErrValue
            ELSE IF r.val = decides THEN OkValue(decides)
            ELSE EvalLeaves(conditions, i + 1, decides, case)

\* The number of leaves the loop has evaluated when it returns.
RECURSIVE LeavesEvaluated(_, _, _, _)
LeavesEvaluated(conditions, i, decides, case) ==
    IF i > Len(conditions) THEN Len(conditions)
    ELSE LET r == evaluate_simple_condition(conditions[i].field,
                      conditions[i].operator, conditions[i].value, case)
         IN IF r.err \/ r.val = decides THEN i
            ELSE LeavesEvaluated(conditions, i + 1, decides, case)

\* AutomationExecutor::evaluate_condition
evaluate_condition(condition, case) ==
    IF ~condition.complex
    THEN evaluate_simple_condition(condition.field, condition.operator,
                                   condition.value, case)
    ELSE IF condition.operator = "AND"
         THEN EvalLeaves(condition.conditions, 1, FALSE, case)
         ELSE EvalLeaves(condition.conditions, 1, TRUE, case)

\* AutomationExecutor::build_webhook_body with fields = None (the default
\* payload; the ids, metadata and timestamps of the case are left out).
build_webhook_body(case, from_phase) ==
    JObj([current_phase |-> JStr(case.current_phase),
          previous_phase |-> JOpt(from_phase),
          data |-> case.data,
          status |-> JStr(case.status)])

\* AutomationExecutor::execute_webhook: one HTTP call, the n-th of the run.
\* Its answer is the environment's; a 2xx answer is returned as the response.
execute_webhook(world, path, body) ==
    LET n == world.calls + 1
        ok == n \notin world.fails
    IN [ok |-> ok,
        response |-> [resp |-> n],
        world |-> [world EXCEPT
                     !.calls = n,
                     !.http = Append(@, [path |-> path, body |-> body, ok |-> ok])]]

\* AutomationExecutor::execute_webhook_with_retry: `for attempt in 1..=max_attempts`
RECURSIVE WebhookRetryLoop(_, _, _, _, _, _)
WebhookRetryLoop(world, path, body, attempt, max_attempts, delay_ms) ==
    IF attempt > max_attempts
    THEN [ok |-> FALSE, response |-> JNull, world |-> world]
    ELSE LET r == execute_webhook(world, path, body) IN
         IF r.ok THEN r
         ELSE WebhookRetryLoop(
                 IF attempt < max_attempts
                 THEN [r.world EXCEPT !.sleeps = Append(@, delay_ms),
                                      !.retry_sleeps = Append(@, delay_ms)]
                 ELSE r.world,
                 path, body, attempt + 1, max_attempts, delay_ms)

execute_webhook_with_retry(world, path, body, max_attempts, delay_ms) ==
    WebhookRetryLoop(world, path, body, 1, max_attempts, delay_ms)

ActionOk(response, mods, world) ==
    [ok |-> TRUE, response |-> response, mods |-> mods, world |-> world]
ActionErr(world) ==
    [ok |-> FALSE, response |-> JNull, mods |-> <<>>, world |-> world]

RECURSIVE execute_actions(_, _, _, _, _)
RECURSIVE execute_action(_, _, _, _, _, _)
RECURSIVE ActionsLoop(_, _, _, _, _, _, _, _)

\* AutomationExecutor::execute_action. `path` is the place of the action in the
\* batch: <<automation, index, index in the branch taken, ...>>.
execute_action(action, case, from_phase, previous_responses, world0, path) ==
    LET world == Ran(Logged(world0, path, "exec"), path, action) IN
    CASE action.type = "webhook" ->
           IF /\ action.use_response_from # None
              /\ action.use_response_from \notin DOMAIN previous_responses
           THEN ActionErr(world)
           ELSE LET body == IF action.use_response_from # None
                            THEN previous_responses[action.use_response_from]
                            ELSE build_webhook_body(case, from_phase)
                    r == IF action.retry.enabled
                         THEN execute_webhook_with_retry(world, path, body,
                                  action.retry.max_attempts, action.retry.delay_ms)
                         ELSE execute_webhook(world, path, body)
                IN IF r.ok THEN ActionOk(r.response, <<>>, r.world)
                   ELSE ActionErr(r.world)
      [] action.type = "delay" ->
           ActionOk(JObj([delayed_ms |-> JNum(action.duration_ms)]), <<>>,
                    [world EXCEPT !.sleeps = Append(@, action.duration_ms)])
      [] action.type = "conditional" ->
           LET condition_result == evaluate_condition(action.condition, case) IN
           IF condition_result.err THEN ActionErr(world)
           ELSE IF condition_result.val
           THEN LET result == execute_actions(action.then, case, from_phase,
                                              world, path)
                IN IF result.ok
                   THEN ActionOk(JObj([condition_result |-> TRUE]),
                                 result.modifications, result.world)
                   ELSE ActionErr(result.world)
           ELSE IF action.has_else
           THEN LET result == execute_actions(action.else, case, from_phase,
                                              world, path)
                IN IF result.ok
                   THEN ActionOk(JObj([condition_result |-> FALSE]),
                                 result.modifications, result.world)
                   ELSE ActionErr(result.world)
           ELSE ActionOk(JObj([condition_result |-> FALSE]), <<>>, world)
      [] action.type = "move_to_phase" ->
           ActionOk(JObj([action |-> JStr("move_to_phase"),
                          phase |-> JStr(action.phase)]),
                    <<ModMoveToPhase(action.phase)>>, world)
      [] action.type = "set_field" ->
           ActionOk(JObj([action |-> JStr("set_field"), value |-> action.value]),
                    <<ModSetField(action.field, action.value)>>, world)

RECURSIVE CaseWithQueued(_, _)
\* The case as it would be once the modifications queued so far were applied.
CaseWithQueued(case, modifications) ==
    IF modifications = <<>> THEN case
    ELSE LET m == Head(modifications)
             next == IF m.type = "MoveToPhase"
                     THEN [case EXCEPT !.previous_phase = case.current_phase,
                                       !.current_phase = m.phase]
                     ELSE IF Len(m.field) = 2 /\ m.field[1] = "data" /\ IsObj(case.data)
                     THEN [case EXCEPT !.data =
                             JObj([k \in DOMAIN case.data.obj \cup {m.field[2]} |->
                                     IF k = m.field[2] THEN m.value
                                     ELSE case.data.obj[k]])]
                     ELSE case
         IN CaseWithQueued(next, Tail(modifications))

\* The case execute_action is given: the &Case of the call, whatever the
\* list has queued.
CaseRead(case, modifications) == case

\* The `for (idx, action) in actions.iter().enumerate()` loop of execute_actions
ActionsLoop(actions, idx, case, from_phase, action_responses, modifications, world, path) ==
    IF idx > Len(actions)
    THEN [ok |-> TRUE, modifications |-> modifications, world |-> world]
    ELSE LET action == actions[idx]
             action_result == execute_action(action, CaseRead(case, modifications),
                                  from_phase, action_responses, world,
                                  Append(path, idx))
         IN IF action_result.ok
            THEN ActionsLoop(actions, idx + 1, case, from_phase,
                     IF ActionId(action) # None
                     THEN [k \in DOMAIN action_responses \cup {ActionId(action)} |->
                             IF k = ActionId(action) THEN action_result.response
                             ELSE action_responses[k]]
                     ELSE action_responses,
                     modifications \o action_result.mods,
                     action_result.world, path)
            ELSE IF on_error(action) = "stop"
            THEN [ok |-> FALSE, modifications |-> <<>>,
                  world |-> Logged(action_result.world, Append(path, idx), "stop")]
            ELSE ActionsLoop(actions, idx + 1, case, from_phase, action_responses,
                     modifications,
                     Logged(action_result.world, Append(path, idx), "continue"),
                     path)

\* The responses of every successful webhook with an id that the call has
\* run so far, whichever list it stands in.
ResponsesOfTheCall(world) ==
    LET stored == {m \in 1..Len(world.http) :
                      /\ world.http[m].ok
                      /\ \E j \in 1..Len(world.ran) :
                            /\ world.ran[j].path = world.http[m].path
                            /\ ActionId(world.ran[j].action) # None}
        IdOf(m) == ActionId(world.ran[CHOOSE j \in 1..Len(world.ran) :
                                world.ran[j].path = world.http[m].path].action)
    IN [id \in {IdOf(m) : m \in stored} |->
            [resp |-> CHOOSE m \in stored :
                        IdOf(m) = id /\ \A o \in stored : IdOf(o) = id => o <= m]]

\* let mut action_responses = HashMap::new()
NewResponses(world) == <<>>

\* AutomationExecutor::execute_actions: a fresh action_responses map and a
\* fresh result for every invocation.
execute_actions(actions, case, from_phase, world, path) ==
    ActionsLoop(actions, 1, case, from_phase, NewResponses(world), <<>>, world, path)

\* Ok with what the automations before the failing one have queued.
ReturnsQueued(modifications, world) ==
    [ok |-> TRUE, modifications |-> modifications, world |-> world]

\* return Err(e): the result with the queued modifications is dropped
ReturnsErr(modifications, world) ==
    [ok |-> FALSE, modifications |-> <<>>, world |-> world]

\* The `for automation in automations` loop of execute_automations
RECURSIVE AutomationsLoop(_, _, _, _, _, _)
AutomationsLoop(automations, a, case, from_phase, modifications, world) ==
    IF a > Len(automations)
    THEN [ok |-> TRUE, modifications |-> modifications, world |-> world]
    ELSE LET action_result == execute_actions(automations[a].actions, case,
                                  from_phase, world, <<a>>)
         IN IF action_result.ok
            THEN AutomationsLoop(automations, a + 1, case, from_phase,
                     modifications \o action_result.modifications,
                     action_result.world)
            ELSE ReturnsErr(modifications, action_result.world)

\* AutomationExecutor::execute_automations
execute_automations(automations, case, from_phase, world) ==
    AutomationsLoop(automations, 1, case, from_phase, <<>>, world)

\* PhaseAutomation
PhaseAutomation(trigger, phase, actions) ==
    [trigger |-> trigger, phase |-> phase, actions |-> actions]

\* Case (the fields the interpreter reads)
CaseSnapshot(current_phase, previous_phase, data) ==
    [current_phase |-> current_phase, previous_phase |-> previous_phase,
     status |-> "active", data |-> data, phase_entered_at |-> 0]

(***************************************************************************)
(* models/workflow.rs, models/case.rs, models/automation.rs                *)
(***************************************************************************)

\* Workflow (one workflow is stored; its id, name and timestamps are left out)
\* automations is <<>> for None and <<automations>> for Some(automations)
Workflow(phases, initial_phase, automations) ==
    [phases |-> phases, initial_phase |-> initial_phase, webhook_url |-> "url",
     active |-> TRUE, automations |-> automations]

\* Workflow::has_phase, Vec::contains
has_phase(workflow, phase_name) ==
    \E i \in 1..Len(workflow.phases) : workflow.phases[i] = phase_name

\* WorkflowAutomations::get_on_enter_automations
get_on_enter_automations(automations, phase) ==
    SelectSeq(automations, LAMBDA a : a.trigger = "on_enter" /\ a.phase = phase)

\* WorkflowAutomations::get_on_exit_automations
get_on_exit_automations(automations, phase) ==
    SelectSeq(automations, LAMBDA a : a.trigger = "on_exit" /\ a.phase = phase)

\* Case::new
NewCase(initial_phase, data) == CaseSnapshot(initial_phase, None, data)

\* Case::move_to_phase
move_to_phase(case, new_phase) ==
    [case EXCEPT !.previous_phase = case.current_phase,
                 !.current_phase = new_phase]

\* CaseHistory::new. tx is the request whose open transaction inserted the
\* row (0 once committed, and for rows inserted outside a transaction).
CaseHistory(case_id, from_phase, to_phase, reason, triggered_by, tx) ==
    [case_id |-> case_id, from_phase |-> from_phase, to_phase |-> to_phase,
     reason |-> reason, triggered_by |-> triggered_by, tx |-> tx]

NoCase == CaseSnapshot(None, None, JNull)
NoWorkflow == Workflow(<<>>, None, <<>>)

(***************************************************************************)
(* The database as the handlers see it (PostgreSQL, READ COMMITTED): a     *)
(* statement outside a transaction takes effect at once; the statements of *)
(* a transaction take effect together at its commit; an UPDATE of a row    *)
(* waits while another transaction that updated the row is open.           *)
(***************************************************************************)

\* The rows of the history table that are committed, in insertion order.
Committed(history) == SelectSeq(history, LAMBDA h : h.tx = 0)

\* The committed history rows of one case.
HistoryOf(case_id) ==
    SelectSeq(db_history, LAMBDA h : h.tx = 0 /\ h.case_id = case_id)

\* parts[1..].join(".") for the field paths of the model.
JoinDots(parts) ==
    CASE Len(parts) = 0 -> ""
      [] Len(parts) = 1 -> parts[1]
      [] parts = <<"a", "b">> -> "a.b"
      [] parts = <<"a", "b", "c">> -> "a.b.c"
      [] OTHER -> "?"

\* jsonb_set(data, '{key}', value, true) with a path of one key
jsonb_set(data, key, value) ==
    IF IsObj(data)
    THEN JObj([k \in DOMAIN data.obj \cup {key} |->
                 IF k = key THEN value ELSE data.obj[k]])
    ELSE data

(***************************************************************************)
(* The batches execute_automations is run on                               *)
(***************************************************************************)

\* Longest action list of a batch.
MaxActions == 2

\* The environment fails HTTP calls among the first MaxFailedCalls of a run.
MaxFailedCalls == 3

FailChoices == SUBSET (1..MaxFailedCalls)

RetryTwice == [enabled |-> TRUE, max_attempts |-> 2, delay_ms |-> 10]

WStop == Webhook(None, None, DefaultRetry, "stop")
WContinue == Webhook(None, None, DefaultRetry, "continue")
WRetryStop == Webhook(None, None, RetryTwice, "stop")

\* A retry.delay_ms above the cap of the flow-step retries.
RetryLongDelay == [enabled |-> TRUE, max_attempts |-> 2, delay_ms |-> MaxDelayMs + 1]
WRetryLong == Webhook(None, None, RetryLongDelay, "continue")

AmountData == JObj([amount |-> JNum(500)])

CondTrue == Simple(<<"data", "amount">>, "<", JNum(1000))
CondFalse == Simple(<<"data", "amount">>, ">", JNum(10000))
CondErr == Simple(<<"data", "missing">>, "==", JNum(1))
CondMismatch == Simple(<<"data", "amount">>, "contains", JStr("5"))
CondUnknownOp == Simple(<<"data", "amount">>, "~=", JNum(500))

SetX == SetField(<<"data", "x">>, JNum(1))

ExecLeaves ==
    {WStop, WContinue, WRetryStop, WRetryLong, MoveToPhase("B"), SetX, Delay(5)}

ExecConditionals ==
    {ConditionalNoElse(CondTrue, <<w, MoveToPhase("C")>>) : w \in {WStop, WContinue}}
    \cup {Conditional(CondFalse, <<MoveToPhase("C")>>, <<w, SetX>>) :
             w \in {WStop, WContinue}}
    \cup {ConditionalNoElse(CondFalse, <<MoveToPhase("C")>>),
          ConditionalNoElse(CondErr, <<MoveToPhase("C")>>),
          ConditionalNoElse(CondMismatch, <<MoveToPhase("C")>>),
          ConditionalNoElse(CondUnknownOp, <<MoveToPhase("C")>>),
          ConditionalNoElse(CondTrue, <<MoveToPhase("C"), WStop>>),
          Conditional(CondTrue, <<MoveToPhase("C")>>, <<SetX, WContinue>>)}

ExecActions == ExecLeaves \cup ExecConditionals

ExecActionLists == UNION {[1..k -> ExecActions] : k \in 1..MaxActions}

\* A webhook with id X, and a webhook that sends the response stored for X.
WIdX(policy) == Webhook("X", None, DefaultRetry, policy)
WUseX(policy) == Webhook(None, "X", DefaultRetry, policy)
WIdY(policy) == Webhook("Y", None, DefaultRetry, policy)
WUseY(policy) == Webhook(None, "Y", DefaultRetry, policy)

\* Batches with response chaining: X declared before its use in the same
\* list, after it, in an earlier automation of the batch, outside the branch
\* that uses it, and never; Y declared inside a branch and used after the
\* conditional.
ExecChained ==
    UNION {{<<PhaseAutomation("on_enter", "A",
                  <<WIdX(p),
                    ConditionalNoElse(CondTrue, <<WUseX(q), WIdY(p)>>),
                    WUseY(q)>>)>>,
            <<PhaseAutomation("on_enter", "A", <<WIdX(p), WUseX(q)>>)>>,
            <<PhaseAutomation("on_enter", "A", <<WUseX(q), WIdX(p)>>)>>,
            <<PhaseAutomation("on_enter", "A", <<WIdX(p)>>),
              PhaseAutomation("on_enter", "A", <<WUseX(q)>>)>>,
            <<PhaseAutomation("on_enter", "A",
                  <<WIdX(p), ConditionalNoElse(CondTrue, <<WUseX(q)>>)>>)>>,
            <<PhaseAutomation("on_enter", "A", <<WUseX(q), SetX>>)>>} :
           p \in {"stop", "continue"}, q \in {"stop", "continue"}}

\* Conditions on what an earlier action of the batch has queued a change of.
CondPhaseC == Simple(<<"current_phase">>, "==", JStr("C"))
CondPreviousA == Simple(<<"previous_phase">>, "==", JStr("A"))
SetAmount == SetField(<<"data", "amount">>, JNum(20000))

\* Batches whose conditionals read a field after an action of the same
\* list, of the enclosing list, or of an earlier automation has queued a
\* change of it.
ExecQueued ==
    {<<PhaseAutomation("on_enter", "A",
          <<SetAmount, Conditional(CondFalse, <<MoveToPhase("B")>>, <<MoveToPhase("C")>>)>>)>>,
     <<PhaseAutomation("on_enter", "A",
          <<MoveToPhase("C"), Conditional(CondPhaseC, <<SetX>>, <<MoveToPhase("B")>>)>>)>>,
     <<PhaseAutomation("on_enter", "A",
          <<MoveToPhase("C"), Conditional(CondPreviousA, <<SetX>>, <<MoveToPhase("B")>>)>>)>>,
     <<PhaseAutomation("on_enter", "A", <<SetAmount>>),
       PhaseAutomation("on_enter", "A",
          <<Conditional(CondFalse, <<MoveToPhase("B")>>, <<MoveToPhase("C")>>)>>)>>,
     <<PhaseAutomation("on_enter", "A",
          <<ConditionalNoElse(CondTrue,
              <<SetAmount, ConditionalNoElse(CondTrue, <<MoveToPhase("B")>>)>>)>>)>>}

\* One automation, or the automation followed by a second one.
ExecBatches ==
    {<<PhaseAutomation("on_enter", "A", l)>> : l \in ExecActionLists}
    \cup {<<PhaseAutomation("on_enter", "A", l),
            PhaseAutomation("on_enter", "A", <<MoveToPhase("C")>>)>> :
             l \in ExecActionLists}
    \cup ExecChained
    \cup ExecQueued

\* No database and no request: the state of the orchestrator while the
\* executors are run on their own.
NoRequests ==
    /\ clock = 0
    /\ db_workflow = NoWorkflow
    /\ db_cases = <<>>
    /\ db_history = <<>>
    /\ db_lock = <<>>
    /\ before_change = <<>>
    /\ reqs = <<>>
    /\ emitted = {}

NoExecResult == [ok |-> FALSE, modifications |-> <<>>, world |-> NewWorld({})]

ExecIdle ==
    [pc |-> "idle", automations |-> <<>>,
     case |-> CaseSnapshot("A", None, AmountData),
     fails |-> {}, result |-> NoExecResult]

ExecInit ==
    \E b \in ExecBatches, f \in FailChoices :
        /\ exec = [ExecIdle EXCEPT !.pc = "call", !.automations = b, !.fails = f]
        /\ retry = RetryIdle
        /\ NoRequests

\* A call of execute_automations(automations, case, None), start to return.
ExecuteAutomations ==
    /\ exec.pc = "call"
    /\ exec' = [exec EXCEPT
                  !.pc = "done",
                  !.result = execute_automations(exec.automations, exec.case,
                                                 None, NewWorld(exec.fails))]
    /\ UNCHANGED <<clock, retry, db_workflow, db_cases, db_history, db_lock, before_change, reqs, emitted>>

(***************************************************************************)
(* A call of evaluate_condition on its own                                 *)
(***************************************************************************)

\* Longest list of leaves of a Complex condition.
MaxLeaves == 3

\* Leaves that are true, false, and that cannot be evaluated (missing field,
\* type mismatch, unknown operator) on the case data {amount: 500}.
LeafChoices == {CondTrue, CondFalse, CondErr, CondMismatch, CondUnknownOp}

ComplexChoices ==
    {Complex(op, l) : op \in {"AND", "OR"},
                      l \in UNION {[1..k -> LeafChoices] : k \in 0..MaxLeaves}}

CondInit ==
    \E c \in ComplexChoices :
        /\ exec = [pc |-> "call", condition |-> c,
                   case |-> CaseSnapshot("A", None, AmountData),
                   result |-> ErrValue, evaluated |-> 0]
        /\ retry = RetryIdle
        /\ NoRequests

\* A call of evaluate_condition(condition, case), start to return.
EvaluateCondition ==
    /\ exec.pc = "call"
    /\ exec' = [exec EXCEPT
                  !.pc = "done",
                  !.result = evaluate_condition(exec.condition, exec.case),
                  !.evaluated = LeavesEvaluated(exec.condition.conditions, 1,
                                    exec.condition.operator = "OR", exec.case)]
    /\ UNCHANGED <<clock, retry, db_workflow, db_cases, db_history, db_lock, before_change, reqs, emitted>>

(***************************************************************************)
(* api/cases/move_case.rs, create.rs, automation_handler.rs and            *)
(* api/workflows.rs : the requests. Every repository call and every        *)
(* statement is a step of its own; the handlers of different requests      *)
(* interleave between steps.                                               *)
(***************************************************************************)

\* Requests served in one behaviour (all of them may overlap).
MaxRequests == 2

Slots == 1..MaxRequests

\* The case that exists at the start, and the id of a case that does not.
FirstCase == 0
NoSuchCase == -1

\* MoveCase.to_phase values tried ("Z" is in no workflow).
MoveTargets == {"A", "B", "C", "Z"}

\* CreateCase.initial_phase values tried.
CreatePhases == {None, "B", "Z"}

\* UpdateWorkflow payloads tried: phases and initial_phase present or absent.
UpdatePayloads ==
    {[has_phases |-> hp, phases |-> ph, initial_phase |-> ip] :
        hp \in {TRUE}, ph \in {<<>>, <<"B", "C">>}, ip \in {None, "B", "Z"}}
    \cup {[has_phases |-> FALSE, phases |-> <<>>, initial_phase |-> ip] :
        ip \in {"B", "Z"}}

NoPayload == [has_phases |-> FALSE, phases |-> <<>>, initial_phase |-> None]

IdleReq ==
    [op |-> "idle", pc |-> "idle", status |-> 0,
     case_id |-> NoSuchCase, to_phase |-> None, payload |-> NoPayload,
     case |-> NoCase, workflow |-> NoWorkflow, from_phase |-> None,
     stage |-> None, mods |-> <<>>, idx |-> 0, current_phase_query |-> None,
     tx_row |-> NoCase, tx_p0 |-> None, tx_before |-> None,
     tx_aborted |-> FALSE, tx_now |-> 0,
     \* what the claims look at: the committed phase when the request began,
     \* whether a batch of this request returned an error, the HTTP calls of
     \* its last batch
     \* and the steps the handler has taken, in order
     \* whether an action with on_error stop of an automation's own list
     \* failed in its last batch
     phase_before |-> None, batch_failed |-> FALSE, batch_stopped |-> FALSE,
     calls |-> 0, steps |-> <<>>]

\* The handler of q has taken a step: a write of the handler, a call of
\* execute_and_apply_automations with the automations of `phase`, the return
\* of apply_automation_modifications (entered: the phases its committed moves
\* entered), the spawn of the event and the case webhook.
Step(q, step, stage, phase, entered) ==
    [q EXCEPT !.steps = Append(@,
        [step |-> step, stage |-> stage, phase |-> phase, entered |-> entered])]

\* The handler returns: its locals go out of scope.
Respond(q, status) ==
    [IdleReq EXCEPT !.op = q.op, !.pc = "done", !.status = status,
                    !.case_id = q.case_id, !.to_phase = q.to_phase,
                    !.phase_before = q.phase_before,
                    !.batch_failed = q.batch_failed,
                    !.batch_stopped = q.batch_stopped, !.calls = q.calls,
                    !.steps = q.steps]

\* ---- move_case -----------------------------------------------------------

\* move_case: case_repo.find_by_id
MoveFindCase(r) ==
    /\ reqs[r].op = "idle"
    /\ \E c \in DOMAIN db_cases \cup {NoSuchCase}, to \in MoveTargets :
        LET q == [reqs[r] EXCEPT !.op = "move_case", !.case_id = c, !.to_phase = to]
        IN reqs' = [reqs EXCEPT ![r] =
                IF c \notin DOMAIN db_cases THEN Respond(q, 404)
                ELSE [q EXCEPT !.pc = "find_workflow", !.case = db_cases[c],
                               !.phase_before = db_cases[c].current_phase]]
    /\ UNCHANGED <<clock, retry, exec, db_workflow, db_cases, db_history, db_lock, before_change, emitted>>

\* The check of the target phase against the workflow left out.
MoveCheckWithoutReject(workflow, case, to_phase) ==
    IF case.current_phase = to_phase THEN "noop" ELSE "move"

\* move_case: the two checks before the move, in the order of the code
MoveCheck(workflow, case, to_phase) ==
    IF ~has_phase(workflow, to_phase) THEN "reject"
    ELSE IF case.current_phase = to_phase THEN "noop"
    ELSE "move"

\* move_case: workflow_repo.find_by_id, the two checks, Case::move_to_phase
MoveFindWorkflow(r) ==
    /\ reqs[r].op = "move_case" /\ reqs[r].pc = "find_workflow"
    /\ LET q == [reqs[r] EXCEPT !.workflow = db_workflow] IN
       reqs' = [reqs EXCEPT ![r] =
            CASE MoveCheck(q.workflow, q.case, q.to_phase) = "reject" -> Respond(q, 400)
              [] MoveCheck(q.workflow, q.case, q.to_phase) = "noop" -> Respond(q, 200)
              [] OTHER -> [q EXCEPT !.pc = "update_phase",
                                    !.from_phase = q.case.current_phase,
                                    !.case = move_to_phase(q.case, q.to_phase)]]
    /\ UNCHANGED <<clock, retry, exec, db_workflow, db_cases, db_history, db_lock, before_change, emitted>>

\* The phase a row held just before an UPDATE changed it (kept per case for
\* the statement about previous_phase).
BeforeChange(before, old_phase, new_phase) ==
    IF new_phase = old_phase THEN before ELSE old_phase

\* NOW() of a statement that is its own transaction: the time the statement
\* starts, later than every time read before.
Now == clock + 1

\* NOW() inside a transaction: the time the transaction started, for every
\* statement of the transaction.
NowInTx(tx_now) == tx_now

\* CaseRepository::update_phase, called by move_case
update_phase(id, current_phase, previous_phase) ==
    /\ db_cases' = [db_cases EXCEPT ![id].current_phase = current_phase,
                                    ![id].previous_phase = previous_phase,
                                    ![id].phase_entered_at = Now]
    /\ clock' = Now
    /\ before_change' = [before_change EXCEPT ![id] =
            BeforeChange(@, db_cases[id].current_phase, current_phase)]

\* move_case: case_repo.update_phase
MoveUpdatePhase(r) ==
    /\ reqs[r].op = "move_case" /\ reqs[r].pc = "update_phase"
    /\ db_lock[reqs[r].case_id] = 0
    /\ update_phase(reqs[r].case_id, reqs[r].case.current_phase,
                    reqs[r].case.previous_phase)
    /\ reqs' = [reqs EXCEPT ![r] =
            Step([reqs[r] EXCEPT !.pc = "create_history"],
                 "update_phase", None, None, {})]
    /\ UNCHANGED <<retry, exec, db_workflow, db_history, db_lock, emitted>>

\* The on_exit stage left out: the handler goes to on_enter at once.
AfterHistoryOnEnterOnly(q, first_stage) ==
    IF Len(q.workflow.automations) = 0 THEN [q EXCEPT !.pc = "spawn"]
    ELSE [q EXCEPT !.pc = "run", !.stage = "on_enter"]

\* The step after the history row: the automations, when the workflow has any.
AfterHistory(q, first_stage) ==
    IF Len(q.workflow.automations) = 0 THEN [q EXCEPT !.pc = "spawn"]
    ELSE [q EXCEPT !.pc = "run", !.stage = first_stage]

\* move_case: case_repo.create_history with the caller's reason
MoveCreateHistory(r) ==
    /\ reqs[r].op = "move_case" /\ reqs[r].pc = "create_history"
    /\ db_history' = Append(db_history,
            CaseHistory(reqs[r].case_id, reqs[r].from_phase, reqs[r].to_phase,
                        "caller", "caller", 0))
    /\ reqs' = [reqs EXCEPT ![r] =
            AfterHistory(Step(reqs[r], "create_history", None, None, {}), "on_exit")]
    /\ UNCHANGED <<clock, retry, exec, db_workflow, db_cases, db_lock, before_change, emitted>>

\* ---- execute_and_apply_automations ---------------------------------------

\* The phase whose automations a stage looks up: &from_phase for on_exit,
\* &case.current_phase for on_enter.
StagePhase(q) ==
    IF q.stage = "on_exit" THEN q.from_phase ELSE q.case.current_phase

\* The batch of a stage: the automations move_case / create_case pass.
StageAutomations(q) ==
    IF q.stage = "on_exit"
    THEN get_on_exit_automations(q.workflow.automations[1], StagePhase(q))
    ELSE get_on_enter_automations(q.workflow.automations[1], StagePhase(q))

\* The handler calls execute_and_apply_automations for its stage.
Called(q) ==
    Step([q EXCEPT !.batch_stopped = FALSE], "run", q.stage, StagePhase(q), {})

\* An action of an automation's own list failed with on_error stop.
Stopped(world) ==
    \E l \in 1..Len(world.log) :
        world.log[l].ev = "stop" /\ Len(world.log[l].path) = 2

\* The on_enter automations run again whenever a batch has moved the case.
NextStageAfterEveryMove(q) ==
    IF q.stage = "on_exit" \/ q.mods # <<>>
    THEN [q EXCEPT !.pc = "run", !.stage = "on_enter", !.mods = <<>>, !.idx = 0]
    ELSE [q EXCEPT !.pc = "spawn", !.mods = <<>>, !.idx = 0]

\* The caller goes on after Ok(..): on_enter after on_exit, then the event.
NextStage(q) ==
    IF q.stage = "on_exit"
    THEN [q EXCEPT !.pc = "run", !.stage = "on_enter", !.mods = <<>>, !.idx = 0]
    ELSE [q EXCEPT !.pc = "spawn", !.mods = <<>>, !.idx = 0]

\* execute_and_apply_automations on the result of the batch: an Err is
\* logged and Ok(None) returned; modifications go to
\* apply_automation_modifications.
AfterBatch(q, res) ==
    IF ~res.ok
    THEN NextStage([q EXCEPT !.calls = res.world.calls, !.batch_failed = TRUE,
                             !.batch_stopped = Stopped(res.world)])
    ELSE IF Len(res.modifications) = 0
    THEN NextStage([q EXCEPT !.calls = res.world.calls,
                             !.batch_stopped = Stopped(res.world)])
    ELSE [q EXCEPT !.calls = res.world.calls, !.pc = "tx_begin",
                   !.mods = res.modifications,
                   !.batch_stopped = Stopped(res.world)]

\* execute_and_apply_automations up to the call of
\* apply_automation_modifications.
RunAutomations(r) ==
    /\ reqs[r].pc = "run"
    /\ IF Len(StageAutomations(reqs[r])) = 0
       THEN reqs' = [reqs EXCEPT ![r] = NextStage(Called(reqs[r]))]
       ELSE \E f \in FailChoices :
             reqs' = [reqs EXCEPT ![r] =
                AfterBatch(Called(reqs[r]),
                           execute_automations(StageAutomations(reqs[r]),
                                               reqs[r].case, reqs[r].from_phase,
                                               NewWorld(f)))]
    /\ UNCHANGED <<clock, retry, exec, db_workflow, db_cases, db_history, db_lock, before_change, emitted>>

\* ---- apply_automation_modifications --------------------------------------

\* format!("{} automation", automation_type)
AutomationReason(automation_type) ==
    IF automation_type = "on_exit" THEN "on_exit automation" ELSE "on_enter automation"

\* The statements run on the pool instead: each takes effect at once.
InPool(r) == 0

\* The statements run on &mut *tx: their rows belong to the transaction.
InTx(r) == r

\* The chained phase left at what the SELECT read.
ChainPhaseStale(current_phase_query, phase) == current_phase_query

\* current_phase_query = phase
ChainPhase(current_phase_query, phase) == phase

\* pool.begin() and SELECT current_phase FROM orchepy_cases WHERE id = $1
TxBegin(r) ==
    /\ reqs[r].pc = "tx_begin"
    /\ reqs' = [reqs EXCEPT
            ![r].pc = "tx_apply", ![r].idx = 1,
            ![r].current_phase_query = db_cases[reqs[r].case_id].current_phase,
            ![r].tx_p0 = db_cases[reqs[r].case_id].current_phase,
            ![r].tx_row = NoCase, ![r].tx_before = None,
            ![r].tx_aborted = FALSE, ![r].tx_now = Now]
    /\ clock' = Now
    /\ UNCHANGED <<retry, exec, db_workflow, db_cases, db_history, db_lock, before_change, emitted>>

\* The check of the phase against workflow.phases left out.
WritesUnchecked(q, modification) ==
    \/ modification.type = "MoveToPhase"
    \/ /\ Len(modification.field) >= 2
       /\ modification.field[1] = "data"

\* Does the modification reach an UPDATE statement?
Writes(q, modification) ==
    IF modification.type = "MoveToPhase"
    THEN has_phase(q.workflow, modification.phase)
    ELSE /\ Len(modification.field) >= 2
         /\ modification.field[1] = "data"
         /\ JoinDots(Tail(modification.field)) # ""

\* The row as the transaction sees it: its own version once it wrote one.
TxRow(r) ==
    IF db_lock[reqs[r].case_id] = r THEN reqs[r].tx_row
    ELSE db_cases[reqs[r].case_id]

\* What the database can answer to the SetField UPDATE, whose jsonb_set path
\* is bound as the string format!("{{{}}}", path) where the function takes
\* text[]: it accepts the statement and reads the string as an array literal
\* (path a.b.c is the one-element array ['a.b.c']), or it rejects the
\* statement, since the parameter is a text. A rejected statement aborts the
\* transaction: its later statements fail and its COMMIT rolls back.
SetFieldOutcomes == {"accepted", "rejected"}

\* One turn of the loop over the modifications.
TxApply(r) ==
    /\ reqs[r].pc = "tx_apply"
    /\ LET q == reqs[r]
           modification == q.mods[q.idx]
           after == [q EXCEPT !.idx = q.idx + 1,
                              !.pc = IF q.idx = Len(q.mods) THEN "tx_commit"
                                     ELSE "tx_apply"]
           row == TxRow(r)
       IN IF ~Writes(q, modification) \/ q.tx_aborted
          THEN /\ reqs' = [reqs EXCEPT ![r] = after]
               /\ UNCHANGED <<db_history, db_lock>>
          ELSE IF modification.type = "MoveToPhase"
          THEN /\ db_lock[q.case_id] \in {0, r}
               /\ db_lock' = [db_lock EXCEPT ![q.case_id] = r]
               /\ reqs' = [reqs EXCEPT ![r] =
                    [after EXCEPT
                       !.tx_row = [row EXCEPT
                           !.current_phase = modification.phase,
                           !.previous_phase = q.current_phase_query,
                           !.phase_entered_at = NowInTx(q.tx_now)],
                       !.tx_before = BeforeChange(@, row.current_phase,
                                                  modification.phase),
                       !.current_phase_query =
                           ChainPhase(@, modification.phase)]]
               /\ db_history' = Append(db_history,
                    CaseHistory(q.case_id, q.current_phase_query,
                                modification.phase,
                                AutomationReason(q.stage), "system",
                                InTx(r)))
          ELSE \E outcome \in SetFieldOutcomes :
                 IF outcome = "rejected"
                 THEN /\ reqs' = [reqs EXCEPT ![r] =
                            [after EXCEPT !.tx_aborted = TRUE]]
                      /\ UNCHANGED <<db_history, db_lock>>
                 ELSE /\ db_lock[q.case_id] \in {0, r}
                      /\ db_lock' = [db_lock EXCEPT ![q.case_id] = r]
                      /\ reqs' = [reqs EXCEPT ![r] =
                            [after EXCEPT
                               !.tx_row = [row EXCEPT !.data =
                                   jsonb_set(row.data,
                                             JoinDots(Tail(modification.field)),
                                             modification.value)]]]
                      /\ UNCHANGED db_history
    /\ UNCHANGED <<clock, retry, exec, db_workflow, db_cases, before_change, emitted>>

\* The phases the moves of request r's open transaction entered.
Entered(r) ==
    {db_history[i].to_phase : i \in {j \in 1..Len(db_history) : db_history[j].tx = r}}

\* tx.commit(): everything the transaction wrote, or nothing and a 500; the
\* COMMIT of an aborted transaction rolls back and returns Ok.
TxCommit(r) ==
    /\ reqs[r].pc = "tx_commit"
    /\ LET q == reqs[r]
           wrote == db_lock[q.case_id] = r
       IN \E ok \in BOOLEAN :
            /\ db_lock' = IF wrote THEN [db_lock EXCEPT ![q.case_id] = 0] ELSE db_lock
            /\ IF ok /\ ~q.tx_aborted
               THEN /\ db_cases' = IF wrote THEN [db_cases EXCEPT ![q.case_id] = q.tx_row]
                                   ELSE db_cases
                    /\ before_change' =
                         IF q.tx_before # None
                         THEN [before_change EXCEPT ![q.case_id] = q.tx_before]
                         ELSE before_change
                    /\ db_history' = [i \in 1..Len(db_history) |->
                         IF db_history[i].tx = r
                         THEN [db_history[i] EXCEPT !.tx = 0] ELSE db_history[i]]
                    /\ reqs' = [reqs EXCEPT ![r] =
                            Step([q EXCEPT !.pc = "reread"], "apply", q.stage,
                                 None, Entered(r))]
               ELSE /\ db_history' = SelectSeq(db_history, LAMBDA h : h.tx # r)
                    /\ reqs' = [reqs EXCEPT ![r] =
                            IF ok THEN Step([q EXCEPT !.pc = "reread"], "apply",
                                            q.stage, None, {})
                            ELSE Respond(q, 500)]
                    /\ UNCHANGED <<db_cases, before_change>>
    /\ UNCHANGED <<clock, retry, exec, db_workflow, emitted>>

\* execute_and_apply_automations: SELECT * FROM orchepy_cases WHERE id = $1
Reread(r) ==
    /\ reqs[r].pc = "reread"
    /\ reqs' = [reqs EXCEPT ![r] =
            NextStage([reqs[r] EXCEPT !.case = db_cases[reqs[r].case_id],
                                      !.tx_aborted = FALSE])]
    /\ UNCHANGED <<clock, retry, exec, db_workflow, db_cases, db_history, db_lock, before_change, emitted>>

\* The case.moved / case.created event and the case webhook are spawned and
\* the handler answers.
Spawn(r) ==
    /\ reqs[r].pc = "spawn"
    /\ emitted' = emitted \cup {[req |-> r, kind |-> k] : k \in {"event", "webhook"}}
    /\ reqs' = [reqs EXCEPT ![r] =
            Respond(Step(reqs[r], "spawn", None, None, {}),
                    IF reqs[r].op = "create_case" THEN 201 ELSE 200)]
    /\ UNCHANGED <<clock, retry, exec, db_workflow, db_cases, db_history, db_lock, before_change>>

\* ---- create_case ---------------------------------------------------------

\* create_case: find_active_by_id, the initial phase and its check, Case::new
CreateFindWorkflow(r) ==
    /\ reqs[r].op = "idle"
    /\ \E ip \in CreatePhases :
        LET initial_phase == IF ip = None THEN db_workflow.initial_phase ELSE ip
            q == [reqs[r] EXCEPT !.op = "create_case", !.case_id = r,
                                 !.to_phase = initial_phase,
                                 !.workflow = db_workflow]
        IN reqs' = [reqs EXCEPT ![r] =
                IF ~has_phase(q.workflow, initial_phase) THEN Respond(q, 400)
                ELSE [q EXCEPT !.pc = "create",
                               !.case = [NewCase(initial_phase, AmountData)
                                            EXCEPT !.phase_entered_at = clock]]]
    /\ UNCHANGED <<clock, retry, exec, db_workflow, db_cases, db_history, db_lock, before_change, emitted>>

\* create_case: case_repo.create
CreateInsert(r) ==
    /\ reqs[r].op = "create_case" /\ reqs[r].pc = "create"
    /\ db_cases' = (reqs[r].case_id :> reqs[r].case) @@ db_cases
    /\ reqs' = [reqs EXCEPT ![r] =
            Step([reqs[r] EXCEPT !.pc = "create_history"], "create", None, None, {})]
    /\ UNCHANGED <<clock, retry, exec, db_workflow, db_history, db_lock, before_change, emitted>>

\* create_case: case_repo.create_history of the creation row
CreateHistory(r) ==
    /\ reqs[r].op = "create_case" /\ reqs[r].pc = "create_history"
    /\ db_history' = Append(db_history,
            CaseHistory(reqs[r].case_id, None, reqs[r].to_phase,
                        "Case created", "system", 0))
    /\ reqs' = [reqs EXCEPT ![r] =
            AfterHistory(Step(reqs[r], "create_history", None, None, {}), "on_enter")]
    /\ UNCHANGED <<clock, retry, exec, db_workflow, db_cases, db_lock, before_change, emitted>>

\* ---- update_workflow -----------------------------------------------------

\* update_workflow: the SELECT and the payload applied to the loaded workflow
UpdateWorkflowLoad(r) ==
    /\ reqs[r].op = "idle"
    /\ \E payload \in UpdatePayloads :
        LET q == [reqs[r] EXCEPT !.op = "update_workflow", !.payload = payload]
            w1 == IF payload.has_phases
                  THEN [db_workflow EXCEPT !.phases = payload.phases]
                  ELSE db_workflow
        IN reqs' = [reqs EXCEPT ![r] =
                IF payload.has_phases /\ Len(payload.phases) = 0 THEN Respond(q, 400)
                ELSE IF payload.initial_phase = None
                     THEN [q EXCEPT !.pc = "update", !.workflow = w1]
                ELSE IF ~has_phase(w1, payload.initial_phase) THEN Respond(q, 400)
                ELSE [q EXCEPT !.pc = "update", !.workflow =
                        [w1 EXCEPT !.initial_phase = payload.initial_phase]]]
    /\ UNCHANGED <<clock, retry, exec, db_workflow, db_cases, db_history, db_lock, before_change, emitted>>

\* update_workflow: UPDATE orchepy_workflows SET every column
UpdateWorkflowStore(r) ==
    /\ reqs[r].op = "update_workflow" /\ reqs[r].pc = "update"
    /\ db_workflow' = reqs[r].workflow
    /\ reqs' = [reqs EXCEPT ![r] = Respond(reqs[r], 200)]
    /\ UNCHANGED <<clock, retry, exec, db_cases, db_history, db_lock, before_change, emitted>>

\* ---- create_workflow -----------------------------------------------------

\* CreateWorkflow (the fields the handlers read)
CreateWorkflowPayload(phases, initial_phase, automations) ==
    [phases |-> phases, initial_phase |-> initial_phase, automations |-> automations]

\* Workflow::new: Err when the initial phase is not in the list or the list
\* is empty, else the workflow with the payload's automations.
NewWorkflow(create) ==
    IF ~has_phase(create, create.initial_phase) THEN <<>>
    ELSE IF Len(create.phases) = 0 THEN <<>>
    ELSE <<Workflow(create.phases, create.initial_phase, create.automations)>>

\* What the automations column of a row holds when the INSERT does not name
\* the column: what the table declares, NULL or an object without
\* automations.
ColumnDefaults == {<<>>, <<<<>>>>}

\* The row INSERT INTO orchepy_workflows (id, name, phases, initial_phase,
\* webhook_url, description, active, created_at, updated_at) stores: the
\* automations column is not in the list.
Inserted(workflow, column_default) ==
    [workflow EXCEPT !.automations = column_default]

\* No create_workflow request yet.
WorkflowIdle ==
    [pc |-> "idle", status |-> 0, payload |-> CreateWorkflowPayload(<<>>, None, <<>>)]

\* create_workflow: Workflow::new, the INSERT, 201 Created
CreateWorkflow ==
    /\ exec.pc = "idle"
    /\ \E payload \in
            {CreateWorkflowPayload(<<"Review", "Approved", "Rejected">>, ip, a) :
                ip \in {"Review", "Z"},
                a \in {<<>>,
                       <<<<PhaseAutomation("on_enter", "Review",
                            <<Conditional(CondTrue, <<MoveToPhase("Approved")>>,
                                          <<MoveToPhase("Rejected")>>)>>)>>>>}},
          column_default \in ColumnDefaults :
        LET workflow == NewWorkflow(payload)
        IN IF workflow = <<>>
           THEN /\ exec' = [pc |-> "done", status |-> 400, payload |-> payload]
                /\ UNCHANGED db_workflow
           ELSE /\ db_workflow' = Inserted(workflow[1], column_default)
                /\ exec' = [pc |-> "done", status |-> 201, payload |-> payload]
    /\ UNCHANGED <<clock, retry, db_cases, db_history, db_lock, before_change, reqs, emitted>>

\* create_case for the workflow a create_workflow answered with.
CreateCaseOfWorkflow(r) ==
    /\ exec.status = 201
    /\ CreateFindWorkflow(r)

\* Nothing stored, no request begun.
WorkflowInit ==
    /\ db_workflow = NoWorkflow
    /\ db_cases = <<>>
    /\ db_history = <<>>
    /\ db_lock = [id \in Slots |-> 0]
    /\ before_change = [id \in Slots |-> None]
    /\ reqs = [r \in Slots |-> IdleReq]
    /\ emitted = {}
    /\ retry = RetryIdle
    /\ exec = WorkflowIdle
    /\ clock = 0

(***************************************************************************)
(* engine/matcher.rs : Matcher                                             *)
(* A string that is taken apart or ordered (a filter key, a field name, a  *)
(* string value) is the sequence of its characters.                        *)
(***************************************************************************)

\* The byte of a character (of the characters the model uses).
Byte(c) ==
    CASE c = "_" -> 95 [] c = "a" -> 97 [] c = "b" -> 98 [] c = "e" -> 101
      [] c = "g" -> 103 [] c = "l" -> 108 [] c = "n" -> 110 [] c = "t" -> 116

RECURSIVE StrCmp(_, _, _)
\* <String as Ord>::cmp from character i on: byte by byte, a prefix first.
StrCmp(a, b, i) ==
    IF i > Len(a) /\ i > Len(b) THEN "Equal"
    ELSE IF i > Len(a) THEN "Less"
    ELSE IF i > Len(b) THEN "Greater"
    ELSE IF Byte(a[i]) < Byte(b[i]) THEN "Less"
    ELSE IF Byte(a[i]) > Byte(b[i]) THEN "Greater"
    ELSE StrCmp(a, b, i + 1)

\* serde_json::Number beside the integer JNum(n): the float x.0, and the u64
\* 2^53 + k, which has more digits than an f64 keeps.
JFloat(x) == [float |-> x]
JBig(k) == [big |-> k]

IsNull(v) == DOMAIN v = {"null"}
IsNumber(v) == DOMAIN v \in {{"num"}, {"float"}, {"big"}}

\* u64 as f64 for 2^53 + k: the nearest f64, ties to the even mantissa. From
\* 2^53 on the f64 values are the even integers.
RoundToF64(k) ==
    CASE k % 4 = 1 -> k - 1
      [] k % 4 = 3 -> k + 1
      [] OTHER -> k

\* Number::as_f64. The f64 e * 2^53 + k is written <<e, k>>.
as_f64(v) ==
    CASE DOMAIN v = {"num"} -> <<0, v.num>>
      [] DOMAIN v = {"float"} -> <<0, v.float>>
      [] DOMAIN v = {"big"} -> <<1, RoundToF64(v.big)>>

\* f64::partial_cmp of two finite values
F64Cmp(x, y) ==
    IF x[1] < y[1] \/ (x[1] = y[1] /\ x[2] < y[2]) THEN "Less"
    ELSE IF x = y THEN "Equal"
    ELSE "Greater"

\* compare_values: <<ordering>> for Some(ordering), <<>> for None
compare_values(a, b) ==
    IF IsNumber(a) /\ IsNumber(b) THEN <<F64Cmp(as_f64(a), as_f64(b))>>
    ELSE IF IsStr(a) /\ IsStr(b) THEN <<StrCmp(a.str, b.str, 1)>>
    ELSE <<>>

\* Value::get(field).is_some()
HasField(data, field) == IsObj(data) /\ field \in DOMAIN data.obj

\* Matcher::check_gt
check_gt(data, field, filter) ==
    IF ~HasField(data, field) THEN FALSE
    ELSE compare_values(data.obj[field], filter) = <<"Greater">>

\* Matcher::check_lt
check_lt(data, field, filter) ==
    IF ~HasField(data, field) THEN FALSE
    ELSE compare_values(data.obj[field], filter) = <<"Less">>

\* check_gte with the test of check_gt.
CheckGteAsGt(data, field, filter) == check_gt(data, field, filter)

\* Matcher::check_gte
check_gte(data, field, filter) ==
    IF ~HasField(data, field) THEN FALSE
    ELSE compare_values(data.obj[field], filter) \in {<<"Greater">>, <<"Equal">>}

\* Matcher::check_lte
check_lte(data, field, filter) ==
    IF ~HasField(data, field) THEN FALSE
    ELSE compare_values(data.obj[field], filter) \in {<<"Less">>, <<"Equal">>}

\* Matcher::check_ne
check_ne(data, field, filter) ==
    IF ~HasField(data, field) THEN FALSE
    ELSE data.obj[field] # filter

\* str::strip_suffix: <<rest>> for Some(rest), <<>> for None
strip_suffix(key, suffix) ==
    IF /\ Len(key) >= Len(suffix)
       /\ SubSeq(key, Len(key) - Len(suffix) + 1, Len(key)) = suffix
    THEN <<SubSeq(key, 1, Len(key) - Len(suffix))>>
    ELSE <<>>

\* The body of the loop of check_filters: does the entry pass?
CheckEntry(event_data, key, filter_value) ==
    IF strip_suffix(key, <<"_", "g", "t">>) # <<>>
    THEN check_gt(event_data, strip_suffix(key, <<"_", "g", "t">>)[1], filter_value)
    ELSE IF strip_suffix(key, <<"_", "l", "t">>) # <<>>
    THEN check_lt(event_data, strip_suffix(key, <<"_", "l", "t">>)[1], filter_value)
    ELSE IF strip_suffix(key, <<"_", "g", "t", "e">>) # <<>>
    THEN check_gte(event_data, strip_suffix(key, <<"_", "g", "t", "e">>)[1], filter_value)
    ELSE IF strip_suffix(key, <<"_", "l", "t", "e">>) # <<>>
    THEN check_lte(event_data, strip_suffix(key, <<"_", "l", "t", "e">>)[1], filter_value)
    ELSE IF strip_suffix(key, <<"_", "n", "e">>) # <<>>
    THEN check_ne(event_data, strip_suffix(key, <<"_", "n", "e">>)[1], filter_value)
    ELSE HasField(event_data, key) /\ event_data.obj[key] = filter_value

\* The next key of the iteration over the filter object (the map is ordered
\* by key).
FirstKey(keys) ==
    CHOOSE k \in keys : \A o \in keys : StrCmp(k, o, 1) \in {"Less", "Equal"}

RECURSIVE FiltersLoop(_, _, _)
\* The loop of check_filters over the entries that are left.
FiltersLoop(event_data, filter_obj, keys) ==
    IF keys = {} THEN TRUE
    ELSE IF ~CheckEntry(event_data, FirstKey(keys), filter_obj[FirstKey(keys)])
    THEN FALSE
    ELSE FiltersLoop(event_data, filter_obj, keys \ {FirstKey(keys)})

\* Matcher::check_filters
check_filters(event_data, filters) ==
    IF ~IsObj(filters) THEN TRUE
    ELSE FiltersLoop(event_data, filters.obj, DOMAIN filters.obj)

\* Matcher::matches with the test of flow.active left out.
MatchesInactiveToo(event, flow) ==
    IF event.event_type # flow.trigger.event_type THEN FALSE
    ELSE IF ~IsNull(flow.trigger.filters)
    THEN check_filters(event.data, flow.trigger.filters)
    ELSE TRUE

\* Matcher::matches
matches(event, flow) ==
    IF ~flow.active THEN FALSE
    ELSE IF event.event_type # flow.trigger.event_type THEN FALSE
    ELSE IF ~IsNull(flow.trigger.filters)
    THEN check_filters(event.data, flow.trigger.filters)
    ELSE TRUE

\* Matcher::match_flows
match_flows(event, flows) == SelectSeq(flows, LAMBDA flow : matches(event, flow))

\* Flow, FlowTrigger (the fields the matcher reads, and the id)
Flow(id, active, event_type, filters) ==
    [id |-> id, active |-> active,
     trigger |-> [event_type |-> event_type, filters |-> filters]]

\* Event (the fields the matcher reads)
Event(event_type, data) == [event_type |-> event_type, data |-> data]

(***************************************************************************)
(* A call of match_flows on its own                                        *)
(***************************************************************************)

\* Longest list of flows.
MaxFlows == 2

FieldA == <<"a">>

\* Values of the field in the event and in the filter: integers, a float,
\* integers from 2^53 on, strings, null.
MatchValues ==
    {JNum(1), JNum(2), JFloat(1), JBig(0), JBig(1), JBig(2),
     JStr(<<"a">>), JStr(<<"a", "b">>), JStr(<<"b">>), JNull}

\* Event data: an object with the field, without it, and no object.
EventDataChoices ==
    {JObj(FieldA :> v) : v \in MatchValues}
    \cup {JObj([k \in {} |-> JNull]), JNull}

FilterKeys ==
    {FieldA, FieldA \o <<"_", "g", "t">>, FieldA \o <<"_", "l", "t">>,
     FieldA \o <<"_", "g", "t", "e">>, FieldA \o <<"_", "l", "t", "e">>,
     FieldA \o <<"_", "n", "e">>}

\* Filters: one entry of every key and value, two entries, null, no object.
FilterChoices ==
    {JObj(k :> v) : k \in FilterKeys, v \in MatchValues}
    \cup {JObj((FieldA \o <<"_", "g", "t", "e">> :> JNum(1))
               @@ (FieldA \o <<"_", "l", "t", "e">> :> JNum(2))),
          JObj((FieldA :> JNum(1)) @@ (<<"b">> :> JNum(1))),
          JNull, JStr(<<"a">>)}

\* The flow under test, and the flows that stand beside it in the list.
ProbeFlows ==
    {Flow(0, active, event_type, filters) :
        active \in BOOLEAN, event_type \in {"case.moved", "case.created"},
        filters \in FilterChoices}

OtherFlows ==
    {Flow(0, TRUE, "case.moved", JNull), Flow(0, FALSE, "case.moved", JNull)}

\* The lists of up to MaxFlows flows with one flow under test, ids by place.
FlowLists ==
    UNION {{[i \in 1..n |-> [(IF i = at THEN probe ELSE others[i]) EXCEPT !.id = i]] :
               at \in 1..n, probe \in ProbeFlows, others \in [1..n -> OtherFlows]} :
           n \in 1..MaxFlows}

MatchInit ==
    \E data \in EventDataChoices, flows \in FlowLists :
        /\ exec = [pc |-> "call", event |-> Event("case.moved", data),
                   flows |-> flows, result |-> <<>>]
        /\ retry = RetryIdle
        /\ NoRequests

\* A call of Matcher::match_flows(event, flows), start to return.
MatchFlows ==
    /\ exec.pc = "call"
    /\ exec' = [exec EXCEPT !.pc = "done",
                            !.result = match_flows(exec.event, exec.flows)]
    /\ UNCHANGED <<clock, retry, db_workflow, db_cases, db_history, db_lock, before_change, reqs, emitted>>

(***************************************************************************)
(* engine/executor.rs : Executor, and api/events.rs : the submission of an *)
(* event. A condition string is the sequence of its characters.            *)
(***************************************************************************)

\* models/step.rs: Step with its StepType flattened (Webhook, Condition,
\* Delay) and on_failure (FailureAction: "stop" | "continue")
BlankStep ==
    [name |-> None, type |-> "", on_failure |-> "stop", condition |-> <<>>,
     if_true |-> None, if_false |-> None, duration_ms |-> 0]

StepWebhook(name, on_failure) ==
    [BlankStep EXCEPT !.name = name, !.type = "webhook", !.on_failure = on_failure]

StepCondition(name, condition, if_true, if_false, on_failure) ==
    [BlankStep EXCEPT !.name = name, !.type = "condition",
                      !.condition = condition, !.if_true = if_true,
                      !.if_false = if_false, !.on_failure = on_failure]

StepDelay(name, duration_ms, on_failure) ==
    [BlankStep EXCEPT !.name = name, !.type = "delay",
                      !.duration_ms = duration_ms, !.on_failure = on_failure]

\* str::find(c): the first place of the character, 0 for None
FindChar(s, c) ==
    IF \E i \in 1..Len(s) : s[i] = c
    THEN CHOOSE i \in 1..Len(s) : s[i] = c /\ \A j \in 1..(i - 1) : s[j] # c
    ELSE 0

\* str::split_once(c): <<left, right>> for Some((left, right)), <<>> for None
split_once(s, c) ==
    IF FindChar(s, c) = 0 THEN <<>>
    ELSE <<SubSeq(s, 1, FindChar(s, c) - 1), SubSeq(s, FindChar(s, c) + 1, Len(s))>>

RECURSIVE trim_start(_)
trim_start(s) == IF s # <<>> /\ Head(s) = " " THEN trim_start(Tail(s)) ELSE s

RECURSIVE trim_end(_)
trim_end(s) ==
    IF s # <<>> /\ s[Len(s)] = " " THEN trim_end(SubSeq(s, 1, Len(s) - 1)) ELSE s

\* str::trim
trim(s) == trim_end(trim_start(s))

\* str::strip_prefix: <<rest>> for Some(rest), <<>> for None
strip_prefix(s, prefix) ==
    IF Len(s) >= Len(prefix) /\ SubSeq(s, 1, Len(prefix)) = prefix
    THEN <<SubSeq(s, Len(prefix) + 1, Len(s))>>
    ELSE <<>>

Digits == {"0", "1", "2", "3", "4", "5", "6", "7", "8", "9"}

DigitValue(c) ==
    CASE c = "0" -> 0 [] c = "1" -> 1 [] c = "2" -> 2 [] c = "3" -> 3
      [] c = "4" -> 4 [] c = "5" -> 5 [] c = "6" -> 6 [] c = "7" -> 7
      [] c = "8" -> 8 [] c = "9" -> 9

IsDigits(s) == s # <<>> /\ \A i \in 1..Len(s) : s[i] \in Digits

RECURSIVE Decimal(_, _)
\* The number written by the first i digits of s.
Decimal(s, i) == IF i = 0 THEN 0 ELSE 10 * Decimal(s, i - 1) + DigitValue(s[i])

\* expr.parse::<f64>() on the strings of the model: decimal integers with or
\* without a sign, inf and NaN; everything else of the model is no number.
\* <<"finite", x>>, <<"nonfinite">> or <<"err">>.
ParseF64(expr) ==
    IF IsDigits(expr) THEN <<"finite", Decimal(expr, Len(expr))>>
    ELSE IF expr # <<>> /\ Head(expr) = "-" /\ IsDigits(Tail(expr))
    THEN <<"finite", 0 - Decimal(Tail(expr), Len(expr) - 1)>>
    ELSE IF expr # <<>> /\ Head(expr) = "+" /\ IsDigits(Tail(expr))
    THEN <<"finite", Decimal(Tail(expr), Len(expr) - 1)>>
    ELSE IF expr \in {<<"i", "n", "f">>, <<"N", "a", "N">>} THEN <<"nonfinite">>
    ELSE <<"err">>

DollarBrace == <<"$", "{">>
EventDataDot == <<"e", "v", "e", "n", "t", ".", "d", "a", "t", "a", ".">>

\* expr.strip_prefix("${").and_then(|s| s.strip_suffix('}'))
StripBraces(expr) ==
    IF strip_prefix(expr, DollarBrace) = <<>> THEN <<>>
    ELSE strip_suffix(strip_prefix(expr, DollarBrace)[1], <<"}">>)

\* event.data.get(field).cloned().unwrap_or(Value::Null)
GetOrNull(data, field) == IF HasField(data, field) THEN data.obj[field] ELSE JNull

\* Executor::extract_value (it never returns Err). json!(num) of an f64 is a
\* float number, and null when the f64 is not finite.
extract_value(expr, event) ==
    IF /\ StripBraces(expr) # <<>>
       /\ strip_prefix(StripBraces(expr)[1], EventDataDot) # <<>>
    THEN GetOrNull(event.data, strip_prefix(StripBraces(expr)[1], EventDataDot)[1])
    ELSE IF ParseF64(expr)[1] = "finite" THEN JFloat(ParseF64(expr)[2])
    ELSE IF ParseF64(expr)[1] = "nonfinite" THEN JNull
    ELSE JStr(expr)

\* The two values of a condition, when they are compared: numbers and
\* strings alike by their order.
ComparesStringsToo(left_val, right_val) ==
    compare_values(left_val, right_val) = <<"Greater">>

\* if let (Some(l), Some(r)) = (left_val.as_f64(), right_val.as_f64())
\*     { return Ok(l > r) }, false otherwise
GreaterAsF64(left_val, right_val) ==
    /\ IsNumber(left_val)
    /\ IsNumber(right_val)
    /\ F64Cmp(as_f64(left_val), as_f64(right_val)) = "Greater"

\* Executor::evaluate_condition (it never returns Err)
flow_evaluate_condition(condition, event) ==
    IF split_once(condition, ">") = <<>> THEN FALSE
    ELSE GreaterAsF64(extract_value(trim(split_once(condition, ">")[1]), event),
                      extract_value(trim(split_once(condition, ">")[2]), event))

RECURSIVE execute_step_inner(_, _, _)
\* Executor::execute_step_inner. webhook_ok is the outcome of execute_webhook
\* (with its retries), which the environment decides. `entered` names the
\* steps execute_step_inner was entered for, in order.
execute_step_inner(step, event, webhook_ok) ==
    CASE step.type = "webhook" ->
           [ok |-> webhook_ok,
            response |-> IF webhook_ok THEN JObj([from |-> JStr(step.name)]) ELSE JNull,
            error |-> IF webhook_ok THEN None ELSE <<"error of", step.name>>,
            entered |-> <<step.name>>]
      [] step.type = "condition" ->
           [execute_step_inner(
                IF flow_evaluate_condition(step.condition, event)
                THEN step.if_true ELSE step.if_false,
                event, webhook_ok)
            EXCEPT !.entered = <<step.name>> \o @]
      [] step.type = "delay" ->
           [ok |-> TRUE,
            response |-> JObj([delayed_ms |-> JNum(step.duration_ms)]),
            error |-> None,
            entered |-> <<step.name>>]

\* Execution::new
NewExecution(id, flow_id, event_id) ==
    [id |-> id, flow_id |-> flow_id, event_id |-> event_id, status |-> "pending",
     current_step |-> None, steps_status |-> <<>>, completed_at |-> <<>>,
     error |-> None]

\* StepStatus of a step result
StepStatusOf(step_result) ==
    [status |-> IF step_result.ok THEN "completed" ELSE "failed",
     attempts |-> 1,
     response |-> IF step_result.ok THEN <<step_result.response>> ELSE <<>>,
     error |-> step_result.error]

\* Every failed step ends the flow.
StopsFlowAlways(step, step_result) == ~step_result.ok

\* if step_result.is_err() { match step.on_failure { Stop => .. break } }
StopsFlow(step, step_result) == ~step_result.ok /\ step.on_failure = "stop"

\* The execution id is kept only when its row was saved.
PushedWhenSaved(execution_ids, id, saved) ==
    IF saved THEN Append(execution_ids, id) ELSE execution_ids

\* execution_ids.push(execution.id), before the row is written
Pushed(execution_ids, id, saved) == Append(execution_ids, id)

\* A flow with its steps
FlowOf(id, active, event_type, filters, steps) ==
    [id |-> id, active |-> active,
     trigger |-> [event_type |-> event_type, filters |-> filters],
     steps |-> steps]

\* The state of one call of internal_create_and_trigger_event: the tables it
\* reads and writes, its locals, and what it did so far (trace).
EventIdle ==
    [pc |-> "idle", event |-> [id |-> "event", event_type |-> "", data |-> JNull],
     db_flows |-> <<>>, db_events |-> {}, db_executions |-> <<>>,
     flows |-> <<>>, matched |-> <<>>, matched_count |-> 0,
     execution_ids |-> <<>>, i |-> 1, execution |-> NewExecution(None, None, None),
     steps_status |-> <<>>, flow_failed |-> FALSE, k |-> 1, trace |-> <<>>,
     response |-> None]

\* INSERT INTO orchepy_events, or the 500 answer when it fails
SaveEvent ==
    /\ exec.pc = "save_event"
    /\ \E ok \in BOOLEAN :
          exec' = IF ok
                  THEN [exec EXCEPT !.db_events = @ \cup {exec.event},
                                    !.pc = "load_flows"]
                  ELSE [exec EXCEPT !.pc = "responded",
                                    !.response = [status |-> 500]]
    /\ UNCHANGED <<clock, retry, db_workflow, db_cases, db_history, db_lock, before_change, reqs, emitted>>

\* SELECT .. FROM orchepy_flows WHERE active = true (or the 500 answer), then
\* Matcher::match_flows and matched.len()
LoadFlows ==
    /\ exec.pc = "load_flows"
    /\ \E ok \in BOOLEAN :
          exec' = IF ok
                  THEN [exec EXCEPT
                          !.flows = SelectSeq(exec.db_flows, LAMBDA flow : flow.active),
                          !.matched = match_flows(exec.event,
                              SelectSeq(exec.db_flows, LAMBDA flow : flow.active)),
                          !.matched_count = Len(match_flows(exec.event,
                              SelectSeq(exec.db_flows, LAMBDA flow : flow.active))),
                          !.pc = "loop"]
                  ELSE [exec EXCEPT !.pc = "responded",
                                    !.response = [status |-> 500]]
    /\ UNCHANGED <<clock, retry, db_workflow, db_cases, db_history, db_lock, before_change, reqs, emitted>>

\* The next turn of `for flow in matched`: executor.execute(flow, &event) up
\* to its loop over the steps. The id is a fresh Uuid.
ExecuteBegin ==
    /\ exec.pc = "loop"
    /\ exec.i <= Len(exec.matched)
    /\ exec' = [exec EXCEPT
                  !.execution = [NewExecution(<<"execution", exec.i>>,
                                     exec.matched[exec.i].id, exec.event.id)
                                 EXCEPT !.status = "running"],
                  !.steps_status = <<>>,
                  !.flow_failed = FALSE,
                  !.k = 1,
                  !.trace = Append(@, [kind |-> "begin", flow |-> exec.matched[exec.i].id]),
                  !.pc = "step"]
    /\ UNCHANGED <<clock, retry, db_workflow, db_cases, db_history, db_lock, before_change, reqs, emitted>>

\* One turn of `for step in &flow.steps`, given the result of execute_step.
AfterStep(e, step, step_result) ==
    [e EXCEPT
       !.execution.current_step = step.name,
       !.execution.error = IF StopsFlow(step, step_result) THEN step_result.error ELSE @,
       !.steps_status = (step.name :> StepStatusOf(step_result)) @@ @,
       !.flow_failed = StopsFlow(step, step_result),
       !.k = @ + 1,
       !.trace = Append(@, [kind |-> "step", flow |-> e.matched[e.i].id,
                            k |-> e.k, step |-> step, result |-> step_result])]

ExecuteStep ==
    /\ exec.pc = "step"
    /\ ~exec.flow_failed
    /\ exec.k <= Len(exec.matched[exec.i].steps)
    /\ \E webhook_ok \in BOOLEAN :
          exec' = AfterStep(exec, exec.matched[exec.i].steps[exec.k],
                      execute_step_inner(exec.matched[exec.i].steps[exec.k],
                                         exec.event, webhook_ok))
    /\ UNCHANGED <<clock, retry, db_workflow, db_cases, db_history, db_lock, before_change, reqs, emitted>>

\* Executor::execute after its loop (serde_json::to_value of a map with
\* string keys does not fail: execute returns Ok).
\* The status left as execute set it at its start.
StatusLeftRunning(execution, flow_failed, now) == execution

\* execute after its loop: the status of the finished flow, completed_at
Finished(execution, flow_failed, now) ==
    [execution EXCEPT !.status = IF flow_failed THEN "failed" ELSE "completed",
                      !.completed_at = <<now>>]

ExecuteEnd ==
    /\ exec.pc = "step"
    /\ exec.flow_failed \/ exec.k > Len(exec.matched[exec.i].steps)
    /\ exec' = [exec EXCEPT
                  !.execution = Finished([@ EXCEPT !.steps_status = exec.steps_status],
                                         exec.flow_failed, clock),
                  !.trace = Append(@, [kind |-> "end", flow |-> exec.matched[exec.i].id,
                                       execution |-> exec.execution.id]),
                  !.pc = "save_execution"]
    /\ UNCHANGED <<clock, retry, db_workflow, db_cases, db_history, db_lock, before_change, reqs, emitted>>

\* Ok(execution): the id is pushed, the row is inserted (a failure is logged)
SaveExecution ==
    /\ exec.pc = "save_execution"
    /\ \E saved \in BOOLEAN :
          exec' = [exec EXCEPT
                     !.execution_ids = Pushed(@, exec.execution.id, saved),
                     !.db_executions = IF saved THEN Append(@, exec.execution) ELSE @,
                     !.i = @ + 1,
                     !.pc = "loop"]
    /\ UNCHANGED <<clock, retry, db_workflow, db_cases, db_history, db_lock, before_change, reqs, emitted>>

\* Ok((event.id, execution_ids, matched_count))
RespondEvent ==
    /\ exec.pc = "loop"
    /\ exec.i > Len(exec.matched)
    /\ exec' = [exec EXCEPT
                  !.pc = "responded",
                  !.response = [status |-> 200, event_id |-> exec.event.id,
                                executions |-> exec.execution_ids,
                                matched_flows |-> exec.matched_count]]
    /\ UNCHANGED <<clock, retry, db_workflow, db_cases, db_history, db_lock, before_change, reqs, emitted>>

\* Longest list of steps of a flow.
MaxSteps == 3

StepName(k) == <<"step", k>>
IfTrueName(k) == <<"step", k, "if_true">>
IfFalseName(k) == <<"step", k, "if_false">>

\* The sides of the condition strings, and what stands between them.
FieldB == <<"b">>
RefA == DollarBrace \o EventDataDot \o FieldA \o <<"}">>
RefB == DollarBrace \o EventDataDot \o FieldB \o <<"}">>
SideChoices ==
    {<<"5">>, <<"1", "0">>, <<"-", "1">>, <<"i", "n", "f">>, <<"a">>, <<"b">>,
     <<>>, RefA, RefB, DollarBrace \o FieldA \o <<"}">>}
Between ==
    {<<" ", ">", " ">>, <<">">>, <<" ", "<", " ">>, <<" ", ">", "=", " ">>,
     <<" ", "=", "=", " ">>, <<" ", ">", ">", " ">>, <<" ">>}

ConditionChoices ==
    {left \o between \o right :
        left \in SideChoices, between \in Between, right \in SideChoices}
    \cup {<<"1", "0", " ", ">", " ", "5", " ", ">", " ", "1">>,
          <<" ", "1", "0", " ", " ", ">", " ", "5", " ">>}

\* The data of the event a condition reads.
StepEventData ==
    {JObj((FieldA :> JNum(10)) @@ (FieldB :> JNum(5))),
     JObj((FieldA :> JBig(1)) @@ (FieldB :> JBig(0))),
     JObj((FieldA :> JStr(<<"b">>)) @@ (FieldB :> JStr(<<"a">>))),
     JObj(FieldA :> JNum(10)),
     JNull}

\* A Condition step for every condition string.
ConditionSteps ==
    {StepCondition(StepName(1), condition, StepWebhook(IfTrueName(1), "stop"),
                   StepDelay(IfFalseName(1), 5, "stop"), "stop") :
        condition \in ConditionChoices}

StepKinds ==
    {"webhook stop", "webhook continue", "delay", "condition continue",
     "condition stop"}

\* The steps a list is made of: the on_failure of a branch differs from the
\* one of its Condition step.
StepOfKind(k, kind) ==
    CASE kind = "webhook stop" -> StepWebhook(StepName(k), "stop")
      [] kind = "webhook continue" -> StepWebhook(StepName(k), "continue")
      [] kind = "delay" -> StepDelay(StepName(k), 5, "stop")
      [] kind = "condition continue" ->
           StepCondition(StepName(k), <<"1", "0", ">", "5">>,
                         StepWebhook(IfTrueName(k), "stop"),
                         StepWebhook(IfFalseName(k), "stop"), "continue")
      [] kind = "condition stop" ->
           StepCondition(StepName(k), <<"5", ">", "5">>,
                         StepDelay(IfTrueName(k), 5, "stop"),
                         StepWebhook(IfFalseName(k), "continue"), "stop")

\* One Condition step, or up to MaxSteps steps of the kinds above.
StepLists ==
    {<<step>> : step \in ConditionSteps}
    \cup UNION {{[k \in 1..n |-> StepOfKind(k, kinds[k])] : kinds \in [1..n -> StepKinds]} :
                n \in 0..MaxSteps}

\* Executor::execute(flow, event) is called for one flow.
FlowInit ==
    \E data \in StepEventData, steps \in StepLists :
        /\ exec = [EventIdle EXCEPT
                      !.pc = "loop",
                      !.event = [id |-> "event", event_type |-> "case.moved",
                                 data |-> data],
                      !.matched = <<FlowOf(1, TRUE, "case.moved", JNull, steps)>>,
                      !.matched_count = 1]
        /\ retry = RetryIdle
        /\ NoRequests

\* The flows table of an event submission.
EventSteps ==
    {<<StepWebhook(StepName(1), "stop")>>,
     <<StepWebhook(StepName(1), "continue"), StepDelay(StepName(2), 5, "stop")>>}

EventFlows ==
    {FlowOf(0, active, event_type, filters, steps) :
        active \in BOOLEAN, event_type \in {"case.moved", "case.created"},
        filters \in {JNull, JObj(FieldA :> JNum(1))}, steps \in EventSteps}

EventFlowLists ==
    UNION {{[i \in 1..n |-> [flows[i] EXCEPT !.id = i]] : flows \in [1..n -> EventFlows]} :
           n \in 0..MaxFlows}

\* internal_create_and_trigger_event(pool, payload) is called.
EventInit ==
    \E data \in {JObj(FieldA :> JNum(1)), JNull}, flows \in EventFlowLists :
        /\ exec = [EventIdle EXCEPT
                      !.pc = "save_event",
                      !.event = [id |-> "event", event_type |-> "case.moved",
                                 data |-> data],
                      !.db_flows = flows]
        /\ retry = RetryIdle
        /\ NoRequests

(***************************************************************************)
(* engine/executor.rs : Executor::interpolate_string                       *)
(***************************************************************************)

\* Value::Bool
JBool(b) == [bool |-> b]

\* str::find("${"): the index of the first "${" of s, 0 for None
FindDollarBrace(s) ==
    IF \E i \in 1..(Len(s) - 1) : s[i] = "$" /\ s[i + 1] = "{"
    THEN CHOOSE i \in 1..(Len(s) - 1) :
            /\ s[i] = "$" /\ s[i + 1] = "{"
            /\ \A j \in 1..(i - 1) : ~(s[j] = "$" /\ s[j + 1] = "{")
    ELSE 0

RECURSIVE NatToString(_)
\* n.to_string() of a natural number
NatToString(n) ==
    IF n < 10 THEN <<CHOOSE c \in Digits : DigitValue(c) = n>>
    ELSE NatToString(n \div 10) \o <<CHOOSE c \in Digits : DigitValue(c) = n % 10>>

\* The match on the value of the field: String, Number (the integers of the
\* model) and Bool are rendered, every other value gives None.
Rendering(v) ==
    IF IsStr(v) THEN v.str
    ELSE IF IsNum(v)
    THEN (IF v.num < 0 THEN <<"-">> \o NatToString(0 - v.num) ELSE NatToString(v.num))
    ELSE IF DOMAIN v = {"bool"}
    THEN (IF v.bool THEN <<"t", "r", "u", "e">> ELSE <<"f", "a", "l", "s", "e">>)
    ELSE <<>>

\* The value a variable stands for: the rendering of event.data.<field>,
\* the empty string for a missing field and for every other variable.
ValueOf(var, event) ==
    IF strip_prefix(var, EventDataDot) # <<>>
    THEN Rendering(GetOrNull(event.data, strip_prefix(var, EventDataDot)[1]))
    ELSE <<>>

\* String::replace_range(start..start + len, value), start counted from 1
replace_range(s, start, len, value) ==
    SubSeq(s, 1, start - 1) \o value \o SubSeq(s, start + len, Len(s))

\* interpolate_string is not called.
InterpolateIdle ==
    [pc |-> "idle", template |-> <<>>, event |-> Event("case.moved", JNull),
     result |-> <<>>, turns |-> 0]

\* Turns of the loop followed in one run.
MaxTurns == 4

\* One turn of `while let Some(start) = result.find("${")`: the loop ends
\* when there is no "${" or no '}' after it, else the text from "${" to the
\* '}' is replaced by the value and the search starts again from the
\* beginning of result.
InterpolateTurn ==
    /\ exec.pc = "loop"
    /\ exec.turns < MaxTurns
    /\ LET start == FindDollarBrace(exec.result)
           end == IF start = 0 THEN 0
                  ELSE FindChar(SubSeq(exec.result, start, Len(exec.result)), "}")
       IN exec' = IF start = 0 \/ end = 0 THEN [exec EXCEPT !.pc = "done"]
                  ELSE [exec EXCEPT
                          !.result = replace_range(exec.result, start, end,
                              ValueOf(SubSeq(exec.result, start + 2, start + end - 2),
                                      exec.event)),
                          !.turns = @ + 1]
    /\ UNCHANGED <<clock, retry, db_workflow, db_cases, db_history, db_lock, before_change, reqs, emitted>>

\* Templates tried: text around one placeholder, two placeholders, the same
\* placeholder twice, a variable that is no event field, an unclosed "${",
\* a '}' before the placeholder, no placeholder.
Templates ==
    {<<"x">> \o RefA \o <<"y">>,
     RefA \o RefB,
     RefA \o <<"-">> \o RefA,
     DollarBrace \o <<"f", "}">> \o RefB,
     RefB \o <<"$", "{", "b">>,
     <<"}">> \o RefA \o <<"}">>,
     <<"x", "y">>}

\* Event data tried: plain values; a value that is the placeholder of its
\* own field, of the other field, that holds its own placeholder after a
\* letter, that opens a placeholder; values that render empty; no object.
InterpolateData ==
    {JObj((FieldA :> JStr(<<"v">>)) @@ (FieldB :> JNum(17))),
     JObj((FieldA :> JBool(TRUE)) @@ (FieldB :> JNum(-3))),
     JObj((FieldA :> JStr(RefA)) @@ (FieldB :> JNum(17))),
     JObj((FieldA :> JStr(RefB)) @@ (FieldB :> JStr(<<"v">>))),
     JObj((FieldA :> JStr(<<"x">> \o RefA)) @@ (FieldB :> JNum(17))),
     JObj((FieldA :> JStr(DollarBrace)) @@ (FieldB :> JStr(<<"v">>))),
     JObj((FieldA :> JNull) @@ (FieldB :> JObj(FieldA :> JNum(1)))),
     JObj(FieldB :> JStr(<<"v">>)),
     JNull}

\* interpolate_string(template, event, _) is called.
InterpolateInit ==
    \E template \in Templates, data \in InterpolateData :
        /\ exec = [InterpolateIdle EXCEPT !.pc = "loop", !.template = template,
                                          !.event = Event("case.moved", data),
                                          !.result = template]
        /\ retry = RetryIdle
        /\ NoRequests

(***************************************************************************)
(* services/webhook.rs : WebhookSender (the outbound case webhook)         *)
(***************************************************************************)

\* The max_retries the handlers pass to send_case_moved_with_retry.
CaseWebhookRetries == 3

\* CaseWebhookPayload of send_case_moved (the ids and metadata left out)
CaseWebhookPayload(case, from_phase) ==
    [action |-> "case.moved",
     data |-> [from_phase |-> from_phase, to_phase |-> case.current_phase,
               case_data |-> case.data]]

RECURSIVE Pow2(_)
\* 2_u64.pow(e), for the e < 64 that max_retries = 3 allows
Pow2(e) == IF e = 0 THEN 1 ELSE 2 * Pow2(e - 1)

\* The seconds slept after the failure of attempt number `attempts`.
BackoffSecs(attempts) == Pow2(attempts - 1)

\* The sender gives up only after one attempt more.
GivesUpLate(attempts, max_retries) == attempts > max_retries

\* if attempts >= max_retries { return Err(err) }
GivesUp(attempts, max_retries) == attempts >= max_retries

WebhookIdle ==
    [pc |-> "idle", case |-> CaseSnapshot("A", None, AmountData),
     from_phase |-> None, max_retries |-> CaseWebhookRetries, attempts |-> 0,
     sends |-> <<>>, sleeps |-> <<>>, result |-> [kind |-> "none", attempt |-> 0]]

\* The spawned task calls send_case_moved_with_retry(url, case, from_phase, 3):
\* from create_case with from_phase None, from move_case with Some(from_phase).
WebhookInit ==
    \E current_phase \in {"A", "B", "C"}, from_phase \in {None, "A", "B", "C"},
       data \in {AmountData, JObj([x |-> JNum(1)]), JNull} :
        /\ exec = [WebhookIdle EXCEPT
                      !.pc = "loop",
                      !.case = CaseSnapshot(current_phase, from_phase, data),
                      !.from_phase = from_phase]
        /\ retry = RetryIdle
        /\ NoRequests

\* One turn of the loop of send_case_moved_with_retry: the attempt, whose
\* outcome the environment decides, and the return or the sleep after it.
WebhookAttempt ==
    /\ exec.pc = "loop"
    /\ \E ok \in BOOLEAN :
          exec' = [exec EXCEPT
                     !.attempts = @ + 1,
                     !.sends = Append(@, [payload |-> CaseWebhookPayload(exec.case, exec.from_phase),
                                          ok |-> ok]),
                     !.sleeps = IF ok \/ GivesUp(exec.attempts + 1, exec.max_retries)
                                THEN @
                                ELSE Append(@, BackoffSecs(exec.attempts + 1)),
                     !.result = IF ok THEN [kind |-> "Ok", attempt |-> exec.attempts + 1]
                                ELSE IF GivesUp(exec.attempts + 1, exec.max_retries)
                                THEN [kind |-> "Err", attempt |-> exec.attempts + 1]
                                ELSE @,
                     !.pc = IF ok \/ GivesUp(exec.attempts + 1, exec.max_retries)
                            THEN "done" ELSE "loop"]
    /\ UNCHANGED <<clock, retry, db_workflow, db_cases, db_history, db_lock, before_change, reqs, emitted>>

(***************************************************************************)
(* The run of RetryExecutor::execute                                       *)
(***************************************************************************)

\* RetryExecutor::new(config) followed by the entry of execute: attempt = 1.
RetryInit ==
    \E m \in AttemptChoices, b \in BackoffStrategy, d \in DelayChoices,
       oc \in BOOLEAN :
        /\ retry = [RetryIdle EXCEPT
                       !.config = [max_attempts |-> m, backoff |-> b,
                                   initial_delay_ms |-> d],
                       !.overflow_checks = oc,
                       !.pc = "loop"]
        /\ exec = ExecIdle
        /\ NoRequests

\* One iteration of the loop of RetryExecutor::execute: the operation is
\* invoked (the n-th invocation) and succeeds or fails.
RetryAttempt ==
    /\ retry.pc = "loop"
    /\ \E ok \in BOOLEAN :
        LET n == retry.calls + 1 IN
        retry' = IF ok THEN RetryOnOk(retry, n) ELSE RetryOnErr(retry, n)
    /\ UNCHANGED <<clock, exec, db_workflow, db_cases, db_history, db_lock, before_change, reqs, emitted>>

(***************************************************************************)
(* The orchestrator: requests on one workflow and its cases                *)
(***************************************************************************)

\* WorkflowAutomations of the workflow: none; moves chained by one batch (a
\* field write and a move to a phase the workflow lacks among them); a
\* webhook that retries twice and stops the batch; field writes.
AutomationsChain ==
    <<PhaseAutomation("on_exit", "A",
        <<MoveToPhase("C"), SetX, MoveToPhase("Z"), MoveToPhase("B")>>)>>

AutomationsRetry ==
    <<PhaseAutomation("on_enter", "B", <<WRetryStop, MoveToPhase("C")>>)>>

\* Field writes: a nested data path, a root other than data, data itself.
AutomationsFields ==
    <<PhaseAutomation("on_enter", "C",
        <<SetField(<<"data", "a", "b", "c">>, JNum(7)),
          SetField(<<"status">>, JStr("closed")),
          SetField(<<"data">>, JNum(0))>>)>>

\* An on_exit automation that moves the case on, and on_enter automations
\* of the phase it moves to and of another phase.
AutomationsExitMove ==
    <<PhaseAutomation("on_exit", "A", <<MoveToPhase("C")>>),
      PhaseAutomation("on_enter", "B", <<SetX>>),
      PhaseAutomation("on_enter", "C", <<MoveToPhase("B")>>)>>

\* Moves that form a cycle: entering A moves to B, entering B moves to A.
AutomationsCycle ==
    <<PhaseAutomation("on_enter", "A", <<MoveToPhase("B")>>),
      PhaseAutomation("on_enter", "B", <<MoveToPhase("A")>>)>>

\* Modifications queued by an earlier automation of the batch and by an
\* earlier action of the list before a webhook that stops the batch.
AutomationsStopLate ==
    <<PhaseAutomation("on_enter", "B", <<MoveToPhase("C"), SetX>>),
      PhaseAutomation("on_enter", "B", <<SetX, WStop>>)>>

AutomationChoices ==
    {<<>>, <<AutomationsChain>>, <<AutomationsRetry>>, <<AutomationsFields>>,
     <<AutomationsExitMove>>, <<AutomationsCycle>>}

\* After create_workflow and create_case: the workflow A, B, C and one case
\* in its initial phase, with its creation row.
InitOf(choices) ==
    \E automations \in choices :
        /\ db_workflow = Workflow(<<"A", "B", "C">>, "A", automations)
        /\ db_cases = (FirstCase :> NewCase("A", AmountData))
        /\ db_history = <<CaseHistory(FirstCase, None, "A", "Case created", "system", 0)>>
        /\ db_lock = [id \in {FirstCase} \cup Slots |-> 0]
        /\ before_change = [id \in {FirstCase} \cup Slots |-> None]
        /\ reqs = [r \in Slots |-> IdleReq]
        /\ emitted = {}
        /\ retry = RetryIdle
        /\ exec = ExecIdle
        /\ clock = 0

Init == InitOf(AutomationChoices)

\* The same with the automations whose moves form a cycle.
FairInit == InitOf({<<AutomationsCycle>>})

\* The same with the automations that queue modifications before a stop.
StopInit == InitOf({<<AutomationsStopLate>>})

Next ==
    \E r \in Slots :
        \/ MoveFindCase(r)
        \/ MoveFindWorkflow(r)
        \/ MoveUpdatePhase(r)
        \/ MoveCreateHistory(r)
        \/ RunAutomations(r)
        \/ TxBegin(r)
        \/ TxApply(r)
        \/ TxCommit(r)
        \/ Reread(r)
        \/ Spawn(r)
        \/ CreateFindWorkflow(r)
        \/ CreateInsert(r)
        \/ CreateHistory(r)
        \/ UpdateWorkflowLoad(r)
        \/ UpdateWorkflowStore(r)

vars == <<clock, retry, exec, db_workflow, db_cases, db_history, db_lock, before_change, reqs, emitted>>

Spec == Init /\ [][Next]_vars


RetryNext == RetryAttempt

\* What a handler does once its request has begun: its statements, its
\* batches, its transaction, its answer.
Continue(r) ==
    \/ MoveFindWorkflow(r)
    \/ MoveUpdatePhase(r)
    \/ MoveCreateHistory(r)
    \/ RunAutomations(r)
    \/ TxBegin(r)
    \/ TxApply(r)
    \/ TxCommit(r)
    \/ Reread(r)
    \/ Spawn(r)
    \/ CreateInsert(r)
    \/ CreateHistory(r)
    \/ UpdateWorkflowStore(r)

\* The requests with handlers that are scheduled as long as they can go on:
\* the runtime polls every task, the database answers every statement (an
\* UPDATE that waits for a row lock is answered when the holder commits).
FairSpec == FairInit /\ [][Next]_vars /\ \A r \in Slots : WF_vars(Continue(r))

SpecStop == StopInit /\ [][Next]_vars

SpecRetry == RetryInit /\ [][RetryNext]_vars

ExecNext == ExecuteAutomations

SpecExec == ExecInit /\ [][ExecNext]_vars

CondNext == EvaluateCondition

SpecCond == CondInit /\ [][CondNext]_vars

MatchNext == MatchFlows

SpecMatch == MatchInit /\ [][MatchNext]_vars

FlowNext == ExecuteBegin \/ ExecuteStep \/ ExecuteEnd

SpecFlow == FlowInit /\ [][FlowNext]_vars

EventNext ==
    \/ SaveEvent
    \/ LoadFlows
    \/ ExecuteBegin
    \/ ExecuteStep
    \/ ExecuteEnd
    \/ SaveExecution
    \/ RespondEvent

SpecEvent == EventInit /\ [][EventNext]_vars

WebhookNext == WebhookAttempt

SpecWebhook == WebhookInit /\ [][WebhookNext]_vars

WorkflowNext ==
    \/ CreateWorkflow
    \/ \E r \in Slots :
        \/ CreateCaseOfWorkflow(r)
        \/ CreateInsert(r)
        \/ CreateHistory(r)
        \/ RunAutomations(r)
        \/ Spawn(r)

SpecWorkflow == WorkflowInit /\ [][WorkflowNext]_vars

InterpolateNext == InterpolateTurn

SpecInterpolate == InterpolateInit /\ [][InterpolateNext]_vars

(***************************************************************************)
(* Claims about the retry executor (checked under SpecRetry)               *)
(***************************************************************************)

\* The delay the formula of the specification gives for attempt n:
\* min(initial_delay_ms * 2^(n-1), 60000), or min(initial_delay_ms, 60000).
FormulaDelay(config, n) ==
    IF config.backoff = "exponential"
    THEN MulPow2Capped(config.initial_delay_ms, n - 1)
    ELSE Min(config.initial_delay_ms, MaxDelayMs)

\* C9: with max_attempts = N >= 1, a finished run of execute has invoked the
\* operation exactly N times and returned the last error when every invocation
\* failed, and exactly k times, returning the success, when invocation k <= N
\* was the first to succeed.
C9_RetryInvocationCount ==
    (retry.pc = "done" /\ retry.config.max_attempts >= 1) =>
        IF retry.first_ok = 0
        THEN /\ retry.calls = retry.config.max_attempts
             /\ retry.result = [kind |-> "err", from |-> retry.config.max_attempts]
        ELSE /\ retry.calls = retry.first_ok
             /\ retry.first_ok <= retry.config.max_attempts
             /\ retry.result = [kind |-> "ok", from |-> retry.first_ok]

\* The case of C9 that the code does satisfy: the same statement for runs in
\* which calculate_delay never reaches an attempt number above 64.
C9_RetryInvocationCountBelowOverflow ==
    (retry.config.max_attempts <= U64Bits + 1) => C9_RetryInvocationCount

\* C10: calculate_delay(n) is min(initial_delay_ms * 2^(n-1), 60000) under
\* exponential backoff and min(initial_delay_ms, 60000) under fixed backoff,
\* for every attempt number n >= 1, also when 2^(n-1) leaves 64 bits: every
\* delay the loop has computed is the formula's, and none panicked.
C10_DelayFormula ==
    /\ retry.result.kind # "panic"
    /\ \A n \in 1..Len(retry.sleeps) :
          retry.sleeps[n] = FormulaDelay(retry.config, n)

\* The case of C10 that the code does satisfy: attempt numbers up to 64.
C10_DelayFormulaBelowOverflow ==
    \A n \in 1..Min(Len(retry.sleeps), U64Bits) :
        retry.sleeps[n] = FormulaDelay(retry.config, n)

(***************************************************************************)
(* Claims about the automation interpreter (checked under SpecExec)        *)
(***************************************************************************)

ExecLog == exec.result.world.log

\* C1: when a webhook whose on_error is stop fails, execute_automations
\* returns an error and no action after it is executed, wherever the webhook
\* sits in the action tree: the stop is the last thing the run did.
C1_StopAbortsBatch ==
    exec.pc = "done" =>
        \A i \in 1..Len(ExecLog) :
            ExecLog[i].ev = "stop" => (~exec.result.ok /\ i = Len(ExecLog))

\* The case of C1 that the code does satisfy: a failing stop webhook that is
\* an element of an automation's own action list (not of a branch).
C1_TopLevelStopAbortsBatch ==
    exec.pc = "done" =>
        \A i \in 1..Len(ExecLog) :
            (ExecLog[i].ev = "stop" /\ Len(ExecLog[i].path) = 2) =>
                (~exec.result.ok /\ i = Len(ExecLog))

\* C11: every sleep between two retry attempts is at most 60,000 ms, for
\* every configured delay, in the flow-step RetryExecutor and in the retry
\* loop of an automation webhook. This is the statement for the webhook loop.
C11_RetrySleepCapped ==
    exec.pc = "done" =>
        \A i \in 1..Len(exec.result.world.retry_sleeps) :
            exec.result.world.retry_sleeps[i] <= MaxDelayMs

\* The half of C11 the code satisfies (under SpecRetry): every sleep of
\* RetryExecutor::execute is at most 60,000 ms.
C11_RetryExecutorSleepCapped ==
    \A n \in 1..Len(retry.sleeps) : retry.sleeps[n] <= MaxDelayMs

\* The CaseModification a MoveToPhase / SetField action stands for.
ModOf(action) ==
    IF action.type = "move_to_phase" THEN ModMoveToPhase(action.phase)
    ELSE ModSetField(action.field, action.value)

\* The MoveToPhase / SetField actions among those executed, in the order
\* they were executed.
RanModifying(ran) ==
    SelectSeq(ran, LAMBDA e : e.action.type \in {"move_to_phase", "set_field"})

\* Their modifications.
RanMods(ran) ==
    [i \in 1..Len(RanModifying(ran)) |-> ModOf(RanModifying(ran)[i].action)]

\* Declared order of two places of a batch: automation, then index in the
\* list, a conditional before the actions of its branch.
PathLess(p, q) ==
    \/ \E k \in 1..Min(Len(p), Len(q)) :
          /\ \A m \in 1..(k - 1) : p[m] = q[m]
          /\ p[k] < q[k]
    \/ /\ Len(p) < Len(q)
       /\ \A m \in 1..Len(p) : p[m] = q[m]

\* The executed actions were executed in declared order.
RanInDeclaredOrder(ran) ==
    \A i \in 1..Len(ran) : \A j \in (i + 1)..Len(ran) : PathLess(ran[i].path, ran[j].path)

ExecRan == exec.result.world.ran

\* C12: when execute_automations succeeds, its modification list is exactly
\* the sequence of the MoveToPhase / SetField actions encountered, in declared
\* order (automations in order, actions in list order, the actions of a
\* conditional's taken branch at the conditional's position).
C12_ModificationsInOrder ==
    (exec.pc = "done" /\ exec.result.ok) =>
        /\ exec.result.modifications = RanMods(ExecRan)
        /\ RanInDeclaredOrder(ExecRan)

\* No action with on_error = stop has failed in the run.
NoStopFailure == \A i \in 1..Len(ExecLog) : ExecLog[i].ev # "stop"

\* The case of C12 the code satisfies: runs in which no stop action failed
\* (inside a conditional, see C1).
C12_ModificationsInOrderNoStop ==
    NoStopFailure => C12_ModificationsInOrder

\* The frame of C12 (under Spec): the step of a request that executes a batch
\* changes no row of the database.
C12_NoPersistedChange ==
    [][\A r \in Slots :
        (reqs[r].pc = "run" /\ reqs'[r] # reqs[r]) =>
            UNCHANGED <<db_workflow, db_cases, db_history, db_lock>>]_vars

\* The branch of a conditional its condition selects: then, else, or nothing
\* (no else, or the condition cannot be evaluated).
TakenBranch(action, case) ==
    LET r == evaluate_condition(action.condition, case) IN
    IF r.err THEN <<>>
    ELSE IF r.val THEN action.then
    ELSE IF action.has_else THEN action.else
    ELSE <<>>

RECURSIVE ListMods(_, _)
RECURSIVE Contribution(_, _)
\* The modifications of a list of actions: those of its MoveToPhase and
\* SetField actions, and of its conditionals, in list order.
ListMods(actions, case) ==
    IF Len(actions) = 0 THEN <<>>
    ELSE Contribution(Head(actions), case) \o ListMods(Tail(actions), case)

\* What one action contributes: a conditional, the modifications of the list
\* its condition selects.
Contribution(action, case) ==
    IF action.type \in {"move_to_phase", "set_field"} THEN <<ModOf(action)>>
    ELSE IF action.type = "conditional" THEN ListMods(TakenBranch(action, case), case)
    ELSE <<>>

RECURSIVE BatchMods(_, _, _)
\* The modifications of the automations a.. of a batch.
BatchMods(automations, a, case) ==
    IF a > Len(automations) THEN <<>>
    ELSE ListMods(automations[a].actions, case) \o BatchMods(automations, a + 1, case)

\* The actions executed directly under the action at `path`.
RanUnder(ran, path) ==
    SelectSeq(ran, LAMBDA e : /\ Len(e.path) = Len(path) + 1
                              /\ SubSeq(e.path, 1, Len(path)) = path)

\* Under every executed conditional only actions of the selected branch were
\* executed, each at its place.
OnlyTakenBranchRan(ran, case) ==
    \A i \in 1..Len(ran) :
        ran[i].action.type = "conditional" =>
            LET branch == TakenBranch(ran[i].action, case)
                under == RanUnder(ran, ran[i].path)
            IN \A j \in 1..Len(under) :
                  /\ Last(under[j].path) <= Len(branch)
                  /\ under[j].action = branch[Last(under[j].path)]

\* C13: a conditional whose condition is true contributes exactly the
\* modifications of its then list; one whose condition is false, those of its
\* else list if present and none otherwise; the actions of the branch not
\* taken are never executed.
C13_ConditionalContribution ==
    exec.pc = "done" =>
        /\ OnlyTakenBranchRan(ExecRan, exec.case)
        /\ exec.result.ok =>
              exec.result.modifications = BatchMods(exec.automations, 1, exec.case)

\* The case of C13 the code satisfies: runs in which no stop action failed.
C13_ConditionalContributionNoStop ==
    NoStopFailure => C13_ConditionalContribution

Front(s) == SubSeq(s, 1, Len(s) - 1)

\* The webhook executed at `path` failed: its last HTTP call did, or it made
\* none (the response it was to send was not stored).
WebhookFailed(world, path) ==
    \/ \E i \in 1..Len(world.http) :
          /\ world.http[i].path = path
          /\ ~world.http[i].ok
          /\ \A j \in (i + 1)..Len(world.http) : world.http[j].path # path
    \/ \A i \in 1..Len(world.http) : world.http[i].path # path

\* An executed action that failed and whose policy is continue: a webhook
\* configured with continue, or a conditional whose condition errs.
FailedContinue(world, e) ==
    \/ /\ e.action.type = "webhook"
       /\ e.action.on_error = "continue"
       /\ WebhookFailed(world, e.path)
    \/ /\ e.action.type = "conditional"
       /\ e.action.condition \in {CondErr, CondMismatch, CondUnknownOp}

\* No webhook configured with stop failed in the run.
NoStopWebhookFailed(world) ==
    \A i \in 1..Len(world.ran) :
        (world.ran[i].action.type = "webhook" /\ world.ran[i].action.on_error = "stop")
            => ~WebhookFailed(world, world.ran[i].path)

RECURSIVE ActionListAt(_, _, _)
\* The list of actions whose elements have the places prefix \o <<k>>.
ActionListAt(automations, case, prefix) ==
    IF Len(prefix) = 1 THEN automations[prefix[1]].actions
    ELSE TakenBranch(ActionListAt(automations, case, Front(prefix))[Last(prefix)], case)

\* C15: when an action fails and its on_error policy is continue (a webhook
\* configured with continue, a conditional whose condition evaluation errs),
\* execute_automations does not fail: the failed action contributes no
\* modification, every following action of its list still runs, and their
\* modifications are returned. (Runs in which no stop webhook fails.)
C15_ContinueGoesOn ==
    (exec.pc = "done" /\ NoStopWebhookFailed(exec.result.world)) =>
        \A i \in 1..Len(ExecRan) :
            FailedContinue(exec.result.world, ExecRan[i]) =>
                LET path == ExecRan[i].path
                    list == ActionListAt(exec.automations, exec.case, Front(path))
                IN /\ exec.result.ok
                   /\ RanUnder(ExecRan, path) = <<>>
                   /\ \A k \in (Last(path) + 1)..Len(list) :
                         \E j \in 1..Len(ExecRan) :
                            /\ ExecRan[j].path = Append(Front(path), k)
                            /\ ExecRan[j].action = list[k]
                   /\ exec.result.modifications = RanMods(ExecRan)

\* A continue webhook failed and a conditional's condition erred, each
\* followed by a MoveToPhase action whose modification is returned.
C15_Witness ==
    /\ exec.pc = "done"
    /\ NoStopWebhookFailed(exec.result.world)
    /\ Len(exec.automations) = 2
    /\ Len(exec.automations[1].actions) = 2
    /\ exec.automations[1].actions[1] = WContinue
    /\ exec.automations[1].actions[2].type = "conditional"
    /\ \A i \in 1..2 : FailedContinue(exec.result.world, ExecRan[i])
    /\ exec.result.modifications = <<ModMoveToPhase("C")>>

(***************************************************************************)
(* Claims about evaluate_condition (checked under SpecCond)                *)
(***************************************************************************)

\* What a leaf is on the case data {amount: 500}.
LeafOutcome(leaf) ==
    IF leaf = CondTrue THEN "true"
    ELSE IF leaf = CondFalse THEN "false"
    ELSE "error"

\* The outcome that decides the combinator: false under AND, true under OR.
Deciding(operator) == IF operator = "AND" THEN "false" ELSE "true"

\* The first leaf, from the left, that decides or errs (0: none does).
FirstStop(condition) ==
    LET stops == {i \in 1..Len(condition.conditions) :
                    LeafOutcome(condition.conditions[i]) \in
                        {Deciding(condition.operator), "error"}}
    IN IF stops = {} THEN 0
       ELSE CHOOSE i \in stops : \A j \in stops : i <= j

\* C14: evaluate_condition on a Complex condition evaluates its leaves left to
\* right. AND returns false at the first false leaf and OR true at the first
\* true leaf, without evaluating later leaves (an erroring leaf after the
\* deciding one produces no error); an erroring leaf reached before any
\* deciding leaf makes the condition an error; AND over all-true leaves is
\* true and OR over all-false leaves is false.
C14_ShortCircuit ==
    exec.pc = "done" =>
        LET k == FirstStop(exec.condition) IN
        IF k = 0
        THEN /\ exec.result = OkValue(exec.condition.operator = "AND")
             /\ exec.evaluated = Len(exec.condition.conditions)
        ELSE /\ exec.evaluated = k
             /\ exec.result =
                  IF LeafOutcome(exec.condition.conditions[k]) = "error"
                  THEN ErrValue
                  ELSE OkValue(exec.condition.operator = "OR")

\* An AND was decided by a false leaf, and an OR by a true leaf, that an
\* erroring leaf follows.
C14_Witness ==
    /\ exec.pc = "done"
    /\ ~exec.result.err
    /\ exec.evaluated < Len(exec.condition.conditions)
    /\ \E i \in (exec.evaluated + 1)..Len(exec.condition.conditions) :
          LeafOutcome(exec.condition.conditions[i]) = "error"

(***************************************************************************)
(* Claims about the requests (checked under Spec)                          *)
(***************************************************************************)

\* A request that has answered and in which a batch returned an error.
FailedBatchAnswered(r) == reqs[r].pc = "done" /\ reqs[r].batch_failed

\* C2: when the automation batch run by create_case or move_case returns an
\* error, the request answers 500 and neither its case.created / case.moved
\* event nor its case webhook is emitted.
C2_BatchFailureAnswers500 ==
    \A r \in Slots :
        FailedBatchAnswered(r) =>
            /\ reqs[r].status = 500
            /\ \A e \in emitted : e.req # r

\* The requests other than r have not started.
Alone(r) == \A o \in Slots \ {r} : reqs[o].op = "idle"

\* A move_case request, served alone, whose on_enter webhook (retry enabled,
\* max_attempts = 2, on_error = stop) failed on every attempt, has answered.
RetryStopMoveAnswered(r) ==
    /\ db_workflow.automations = <<AutomationsRetry>>
    /\ reqs[r].op = "move_case"
    /\ FailedBatchAnswered(r)
    /\ Alone(r)

\* C3: such a request has called the endpoint exactly twice and the persisted
\* current_phase of the case is what it was before the request.
C3_RetryStopAbortsMove ==
    \A r \in Slots :
        RetryStopMoveAnswered(r) =>
            /\ reqs[r].calls = 2
            /\ db_cases[reqs[r].case_id].current_phase = reqs[r].phase_before

\* The half of C3 the code satisfies: the endpoint is called exactly twice.
C3_EndpointCalledTwice ==
    \A r \in Slots : RetryStopMoveAnswered(r) => reqs[r].calls = 2

\* The MoveToPhase mutations of the batch that are applied (not skipped).
AppliedMoves(q) ==
    SelectSeq(q.mods, LAMBDA m : m.type = "MoveToPhase" /\ has_phase(q.workflow, m.phase))

\* The rows (p0 -> p1), (p1 -> p2), ..., (p(n-1) -> pn) of the applied moves.
ChainRows(q, applied, tx) ==
    [i \in 1..Len(applied) |->
        [case_id |-> q.case_id,
         from_phase |-> IF i = 1 THEN q.tx_p0 ELSE applied[i - 1].phase,
         to_phase |-> applied[i].phase,
         reason |-> IF q.stage = "on_exit" THEN "on_exit automation"
                    ELSE "on_enter automation",
         triggered_by |-> "system",
         tx |-> tx]]

\* What a committing call of apply_automation_modifications by request r has
\* written and makes visible, given the state before and after the commit.
ChainCommitted(r) ==
    LET q == reqs[r]
        applied == AppliedMoves(q)
        n == Len(applied)
    IN /\ SelectSeq(db_history, LAMBDA h : h.tx = r) = ChainRows(q, applied, r)
       /\ Len(HistoryOf(q.case_id)') = Len(HistoryOf(q.case_id)) + n
       /\ SelectSeq(db_history', LAMBDA h : h.tx = r) = <<>>
       /\ n >= 1 =>
            /\ db_cases'[q.case_id].current_phase = applied[n].phase
            /\ db_cases'[q.case_id].previous_phase =
                    IF n = 1 THEN q.tx_p0 ELSE applied[n - 1].phase

\* C4: apply_automation_modifications chains the MoveToPhase mutations: for
\* the applied moves p1..pn from the phase p0 it read, it appends exactly one
\* history row per applied move, in order (p0->p1), ..., (p(n-1)->pn), each
\* with reason "<label> automation" and triggered_by "system", and leaves the
\* case with current_phase = pn and previous_phase = p(n-1).
C4_ChainedMoves ==
    [][\A r \in Slots :
        (reqs[r].pc = "tx_commit" /\ reqs'[r].pc = "reread" /\ ~reqs[r].tx_aborted)
            => ChainCommitted(r)]_vars

\* A call has committed two applied moves and skipped a third.
C4_Witness ==
    \E r \in Slots :
        /\ reqs[r].pc = "reread"
        /\ ~reqs[r].tx_aborted
        /\ Len(AppliedMoves(reqs[r])) >= 2
        /\ \E i \in 1..Len(reqs[r].mods) :
              /\ reqs[r].mods[i].type = "MoveToPhase"
              /\ ~has_phase(reqs[r].workflow, reqs[r].mods[i].phase)

\* What a concurrent reader can see: the committed rows.
View == [cases |-> db_cases, history |-> Committed(db_history)]

RECURSIVE ExpectedRow(_, _, _, _, _, _)
\* The case row after the modifications i.. of a batch, p being the chained
\* phase.
ExpectedRow(row, p, mods, i, workflow, now) ==
    IF i > Len(mods) THEN row
    ELSE IF mods[i].type = "MoveToPhase"
    THEN IF has_phase(workflow, mods[i].phase)
         THEN ExpectedRow([row EXCEPT !.current_phase = mods[i].phase,
                                      !.previous_phase = p,
                                      !.phase_entered_at = now],
                          mods[i].phase, mods, i + 1, workflow, now)
         ELSE ExpectedRow(row, p, mods, i + 1, workflow, now)
    ELSE IF Len(mods[i].field) >= 2 /\ mods[i].field[1] = "data"
    THEN ExpectedRow([row EXCEPT !.data =
                         jsonb_set(row.data, JoinDots(Tail(mods[i].field)),
                                   mods[i].value)],
                     p, mods, i + 1, workflow, now)
    ELSE ExpectedRow(row, p, mods, i + 1, workflow, now)

\* The commit of request r made the whole batch visible.
AllVisible(r) ==
    LET q == reqs[r] IN
    /\ db_cases' = [db_cases EXCEPT ![q.case_id] =
            ExpectedRow(@, q.tx_p0, q.mods, 1, q.workflow, q.tx_now)]
    /\ Len(Committed(db_history')) =
            Len(Committed(db_history)) + Len(AppliedMoves(q))
    /\ Len(db_history') = Len(Committed(db_history')) +
            Len(SelectSeq(db_history, LAMBDA h : h.tx \notin {0, r}))

\* C5: the case updates and history rows one apply_automation_modifications
\* call writes become visible together: no step of the call before its
\* commit changes what a reader sees, a successful commit shows the whole
\* batch, and a failed commit shows nothing of it and the call returns an
\* error (the request answers 500). The commit of a transaction that a
\* rejected statement aborted shows nothing of the batch either.
C5_BatchVisibleAtOnce ==
    [][\A r \in Slots :
        /\ (reqs[r].pc \in {"tx_begin", "tx_apply"} /\ reqs'[r] # reqs[r]) =>
                View' = View
        /\ (reqs[r].pc = "tx_commit" /\ reqs'[r] # reqs[r]) =>
                \/ reqs'[r].status = 500 /\ View' = View
                \/ reqs'[r].pc = "reread" /\ ~reqs[r].tx_aborted /\ AllVisible(r)
                \/ reqs'[r].pc = "reread" /\ reqs[r].tx_aborted /\ View' = View]_vars

\* A call is between two of its modifications: its transaction has moved the
\* case and written a history row, and the committed rows show neither.
C5_Witness ==
    \E r \in Slots :
        /\ reqs[r].pc = "tx_apply"
        /\ db_lock[reqs[r].case_id] = r
        /\ reqs[r].tx_row.current_phase # db_cases[reqs[r].case_id].current_phase
        /\ \E i \in 1..Len(db_history) : db_history[i].tx = r

\* The next modification of request r's batch is a MoveToPhase to a phase
\* that is not in workflow.phases.
AtSkippedMove(r) ==
    /\ reqs[r].pc = "tx_apply"
    /\ reqs[r].mods[reqs[r].idx].type = "MoveToPhase"
    /\ ~has_phase(reqs[r].workflow, reqs[r].mods[reqs[r].idx].phase)

\* C16: in apply_automation_modifications a MoveToPhase whose phase is not in
\* workflow.phases is skipped: it changes neither current_phase nor
\* previous_phase, appends no history row, leaves the chained phase seen by
\* later mutations as it is, and every other mutation of the batch is still
\* applied (the loop goes on, and the commit of a transaction in which no
\* statement was rejected shows the batch without it).
C16_UnknownPhaseSkipped ==
    [][\A r \in Slots :
        /\ (AtSkippedMove(r) /\ reqs'[r] # reqs[r]) =>
              /\ reqs'[r] = [reqs[r] EXCEPT
                    !.idx = @ + 1,
                    !.pc = IF reqs[r].idx = Len(reqs[r].mods) THEN "tx_commit"
                           ELSE "tx_apply"]
              /\ UNCHANGED <<db_cases, db_history, db_lock>>
        /\ (reqs[r].pc = "tx_commit" /\ reqs'[r].pc = "reread"
                /\ ~reqs[r].tx_aborted) =>
              db_cases'[reqs[r].case_id] =
                  ExpectedRow(db_cases[reqs[r].case_id], reqs[r].tx_p0,
                              reqs[r].mods, 1, reqs[r].workflow,
                              reqs[r].tx_now)]_vars

\* A batch was committed in which a move to an unknown phase was skipped and
\* a later move applied: the case is in the later move's phase.
C16_Witness ==
    \E r \in Slots :
        /\ reqs[r].pc = "reread"
        /\ ~reqs[r].tx_aborted
        /\ \E i \in 1..Len(reqs[r].mods) : \E j \in (i + 1)..Len(reqs[r].mods) :
              /\ reqs[r].mods[i].type = "MoveToPhase"
              /\ ~has_phase(reqs[r].workflow, reqs[r].mods[i].phase)
              /\ reqs[r].mods[j].type = "MoveToPhase"
              /\ has_phase(reqs[r].workflow, reqs[r].mods[j].phase)
              /\ db_cases[reqs[r].case_id].current_phase = reqs[r].mods[j].phase
              /\ db_cases[reqs[r].case_id].previous_phase # reqs[r].mods[i].phase

\* The field of the modification request r is at is "data" itself or has
\* another root than data.
AtOtherRoot(r) ==
    /\ reqs[r].pc = "tx_apply"
    /\ reqs[r].mods[reqs[r].idx].type = "SetField"
    /\ \/ Len(reqs[r].mods[reqs[r].idx].field) < 2
       \/ reqs[r].mods[reqs[r].idx].field[1] # "data"

RECURSIVE SetPath(_, _, _, _)
\* data with value at the nested path parts[i], parts[i + 1], ..., every
\* missing intermediate object created and every other key kept.
SetPath(data, parts, i, value) ==
    IF i > Len(parts) THEN value
    ELSE LET obj == IF IsObj(data) THEN data.obj ELSE [k \in {} |-> JNull]
             child == IF parts[i] \in DOMAIN obj THEN obj[parts[i]] ELSE JNull
         IN JObj([k \in DOMAIN obj \cup {parts[i]} |->
                    IF k = parts[i] THEN SetPath(child, parts, i + 1, value)
                    ELSE obj[k]])

RECURSIVE NestedData(_, _, _)
\* The data of the case after the SetField modifications i.. of a batch, each
\* "data.<path>" written at its nested path.
NestedData(data, mods, i) ==
    IF i > Len(mods) THEN data
    ELSE IF /\ mods[i].type = "SetField"
            /\ Len(mods[i].field) >= 2
            /\ mods[i].field[1] = "data"
    THEN NestedData(SetPath(data, mods[i].field, 2, mods[i].value), mods, i + 1)
    ELSE NestedData(data, mods, i + 1)

\* The batch of request r sets the field data.a.b.c.
SetsNestedField(r) ==
    \E i \in 1..Len(reqs[r].mods) :
        /\ reqs[r].mods[i].type = "SetField"
        /\ reqs[r].mods[i].field = <<"data", "a", "b", "c">>

\* C17: when apply_automation_modifications returns Ok for a batch with
\* SetField "data.a.b.c", the case's data holds the value at the nested path
\* a -> b -> c (missing intermediate objects created) and its other keys are
\* unchanged; a SetField whose field is "data" or has another root changes
\* nothing in the case.
C17_SetFieldNestedPath ==
    [][\A r \in Slots :
        /\ (reqs[r].pc = "tx_commit" /\ reqs'[r].pc = "reread"
                /\ SetsNestedField(r)) =>
              db_cases'[reqs[r].case_id].data =
                  NestedData(db_cases[reqs[r].case_id].data, reqs[r].mods, 1)
        /\ (AtOtherRoot(r) /\ reqs'[r] # reqs[r]) =>
              /\ reqs'[r] = [reqs[r] EXCEPT
                    !.idx = @ + 1,
                    !.pc = IF reqs[r].idx = Len(reqs[r].mods) THEN "tx_commit"
                           ELSE "tx_apply"]
              /\ UNCHANGED <<db_cases, db_history, db_lock>>]_vars

\* The half of C17 the code satisfies: a SetField whose field is "data" or
\* has another root changes nothing in the case.
C17_OtherRootChangesNothing ==
    [][\A r \in Slots :
        (AtOtherRoot(r) /\ reqs'[r] # reqs[r]) =>
              /\ reqs'[r] = [reqs[r] EXCEPT
                    !.idx = @ + 1,
                    !.pc = IF reqs[r].idx = Len(reqs[r].mods) THEN "tx_commit"
                           ELSE "tx_apply"]
              /\ UNCHANGED <<db_cases, db_history, db_lock>>]_vars

\* What the code does with "data.a.b.c" when the database accepts the
\* statement: the value is under the one top-level key "a.b.c".
C17_SetFieldSingleKey ==
    [][\A r \in Slots :
        (reqs[r].pc = "tx_commit" /\ reqs'[r].pc = "reread"
            /\ SetsNestedField(r) /\ ~reqs[r].tx_aborted) =>
              /\ "a" \notin DOMAIN db_cases'[reqs[r].case_id].data.obj
              /\ "a.b.c" \in DOMAIN db_cases'[reqs[r].case_id].data.obj]_vars

\* C18: after any sequence of workflow creations and updates, the stored
\* workflow has a non-empty phases list that contains its initial_phase.
C18_InitialPhaseInPhases ==
    /\ Len(db_workflow.phases) >= 1
    /\ has_phase(db_workflow, db_workflow.initial_phase)

\* The half of C18 the code satisfies: the phases list is never empty.
C18_PhasesNonEmpty == Len(db_workflow.phases) >= 1

\* Request r is a move_case about to load the workflow, and the target is
\* the current_phase of the case it loaded.
AtNoOpMove(r) ==
    /\ reqs[r].op = "move_case"
    /\ reqs[r].pc = "find_workflow"
    /\ reqs[r].case.current_phase = reqs[r].to_phase

\* Nothing of request r was emitted: no event, no case webhook.
NothingEmitted(r) == \A e \in emitted : e.req # r

\* C19: a move_case whose target phase equals the case's current_phase is a
\* no-op: it returns success (200), leaves the case rows (current_phase,
\* previous_phase, timestamps, data) unchanged, appends no history row, runs
\* no automation and emits no case.moved event and no case webhook.
C19_NoOpMove ==
    [][\A r \in Slots :
        (AtNoOpMove(r) /\ reqs'[r] # reqs[r]) =>
            /\ reqs'[r].pc = "done"
            /\ reqs'[r].status = 200
            /\ reqs'[r].calls = 0
            /\ NothingEmitted(r)'
            /\ UNCHANGED <<db_cases, db_history, db_lock, emitted>>]_vars

\* The part of C19 the code satisfies in every state: the request ends at
\* once and changes, runs and emits nothing.
C19_NoOpMoveChangesNothing ==
    [][\A r \in Slots :
        (AtNoOpMove(r) /\ reqs'[r] # reqs[r]) =>
            /\ reqs'[r].pc = "done"
            /\ reqs'[r].calls = 0
            /\ NothingEmitted(r)'
            /\ UNCHANGED <<db_cases, db_history, db_lock, emitted>>]_vars

\* C19 for a target phase that the workflow still has: success.
C19_NoOpMoveOfKnownPhase ==
    [][\A r \in Slots :
        (AtNoOpMove(r) /\ reqs'[r] # reqs[r]
            /\ \E i \in 1..Len(db_workflow.phases) :
                   db_workflow.phases[i] = reqs[r].to_phase) =>
            /\ reqs'[r].pc = "done"
            /\ reqs'[r].status = 200
            /\ UNCHANGED <<db_cases, db_history, db_lock, emitted>>]_vars

\* Request r is a move_case about to load the workflow, whose phases do not
\* hold the target.
AtUnknownTarget(r) ==
    /\ reqs[r].op = "move_case"
    /\ reqs[r].pc = "find_workflow"
    /\ \A i \in 1..Len(db_workflow.phases) :
          db_workflow.phases[i] # reqs[r].to_phase

\* C20: a move_case whose target phase is not in the workflow's phases is
\* rejected with a validation error (400), leaves the case rows and the
\* history unchanged, runs no automation and emits no event or webhook; and
\* no step of a move_case before its checks changes anything.
C20_UnknownTargetRejected ==
    [][\A r \in Slots :
        /\ (AtUnknownTarget(r) /\ reqs'[r] # reqs[r]) =>
              /\ reqs'[r].pc = "done"
              /\ reqs'[r].status = 400
              /\ reqs'[r].calls = 0
              /\ NothingEmitted(r)'
              /\ UNCHANGED <<db_cases, db_history, db_lock, emitted>>
        /\ (reqs[r].op = "idle" /\ reqs'[r].op = "move_case") =>
              /\ NothingEmitted(r)
              /\ UNCHANGED <<db_cases, db_history, db_lock, emitted>>]_vars

\* A move_case to a phase its workflow does not have was answered 400 while
\* the case was elsewhere and stays there.
C20_Witness ==
    \E r \in Slots :
        /\ reqs[r].op = "move_case"
        /\ reqs[r].pc = "done"
        /\ reqs[r].status = 400
        /\ reqs[r].to_phase = "Z"
        /\ db_cases[reqs[r].case_id].current_phase = reqs[r].phase_before
        /\ NothingEmitted(r)

\* a is a prefix of b.
IsPrefix(a, b) == /\ Len(a) <= Len(b)
                  /\ \A i \in 1..Len(a) : a[i] = b[i]

\* What a step of the handler is: the step, and the stage of a call.
StepLabel(e) == IF e.step = "run" THEN e.stage ELSE e.step

\* The steps of a handler without the returns of
\* apply_automation_modifications, by what they are.
CallLabels(steps) ==
    LET calls == SelectSeq(steps, LAMBDA e : e.step # "apply")
    IN [i \in 1..Len(calls) |-> StepLabel(calls[i])]

\* The order of the claim, for a workflow with automations and without.
MoveOrder(workflow) ==
    IF Len(workflow.automations) = 0
    THEN <<"update_phase", "create_history", "spawn">>
    ELSE <<"update_phase", "create_history", "on_exit", "on_enter", "spawn">>

\* Every return of apply_automation_modifications follows the call of
\* execute_and_apply_automations of its stage.
AppliesFollowRuns(steps) ==
    \A i \in 1..Len(steps) :
        steps[i].step = "apply" =>
            /\ i > 1
            /\ steps[i - 1].step = "run"
            /\ steps[i - 1].stage = steps[i].stage

\* The step request r takes keeps the order of move_case, and does what the
\* order says it has done.
MoveOrderKept(r) ==
    LET q == reqs[r]
        steps == reqs'[r].steps
    IN /\ IsPrefix(CallLabels(steps), MoveOrder(q.workflow))
       /\ AppliesFollowRuns(steps)
       /\ Last(steps).step = "update_phase" =>
             /\ db_cases'[q.case_id].current_phase = q.to_phase
             /\ db_cases'[q.case_id].previous_phase = q.from_phase
       /\ Last(steps).step = "create_history" =>
             db_history' = Append(db_history,
                 CaseHistory(q.case_id, q.from_phase, q.to_phase,
                             "caller", "caller", 0))
       /\ (Last(steps).step = "run" /\ Last(steps).stage = "on_exit") =>
             Last(steps).phase = q.from_phase

C22_OnEnterOfTarget ==
    \A r \in Slots :
        reqs[r].op = "move_case" =>
            \A i \in 1..Len(reqs[r].steps) :
                (reqs[r].steps[i].step = "run" /\ reqs[r].steps[i].stage = "on_enter")
                    => reqs[r].steps[i].phase = reqs[r].to_phase

\* What the code satisfies of C22: the on_enter automations are those of the
\* target phase when the on_exit batch applied nothing (the case was not
\* re-read).
C22_OnEnterOfTargetWithoutReread ==
    \A r \in Slots :
        reqs[r].op = "move_case" =>
            \A i \in 1..Len(reqs[r].steps) :
                (/\ reqs[r].steps[i].step = "run"
                 /\ reqs[r].steps[i].stage = "on_enter"
                 /\ \A j \in 1..(i - 1) : reqs[r].steps[j].step # "apply")
                    => reqs[r].steps[i].phase = reqs[r].to_phase

\* C23: a phase move applied by an automation triggers no further
\* automation, in create_case and in move_case: after a batch whose moves
\* were applied, no on_exit automation runs, and no on_enter automation of a
\* phase those moves entered (unless it is the phase the request itself
\* asked for).
C23_NoFurtherAutomation ==
    \A r \in Slots :
        \A i \in 1..Len(reqs[r].steps) : \A j \in (i + 1)..Len(reqs[r].steps) :
            (reqs[r].steps[i].step = "apply" /\ reqs[r].steps[j].step = "run") =>
                /\ reqs[r].steps[j].stage = "on_enter"
                /\ reqs[r].steps[j].phase \notin
                        (reqs[r].steps[i].entered \ {reqs[r].to_phase})

\* What the code satisfies of C23: no on_exit automation runs after an
\* applied batch, nothing runs after the on_enter batch was applied, and
\* create_case runs one batch only.
C23_OnEnterMovesFireNothing ==
    \A r \in Slots :
        /\ \A i \in 1..Len(reqs[r].steps) : \A j \in (i + 1)..Len(reqs[r].steps) :
              (reqs[r].steps[i].step = "apply" /\ reqs[r].steps[j].step = "run") =>
                  /\ reqs[r].steps[i].stage = "on_exit"
                  /\ reqs[r].steps[j].stage = "on_enter"
        /\ reqs[r].op = "create_case" =>
              Len(SelectSeq(reqs[r].steps, LAMBDA e : e.step = "run")) <= 1

\* C6: every case's current_phase is a member of its workflow's phases list.
C6_CurrentPhaseInWorkflow ==
    \A id \in DOMAIN db_cases : has_phase(db_workflow, db_cases[id].current_phase)

\* The rows form a chain anchored at creation.
IsChain(rows) ==
    /\ Len(rows) > 0 => rows[1].from_phase = None
    /\ \A i \in 2..Len(rows) : rows[i].from_phase = rows[i - 1].to_phase

\* C7: after any sequence of create_case and move_case requests (each has
\* answered), overlapping ones included, the history rows of every case in insertion order form a
\* chain: the first has from_phase = null and every later row's from_phase is
\* the previous row's to_phase.
C7_HistoryChain ==
    (\A r \in Slots : /\ reqs[r].op \in {"idle", "create_case", "move_case"}
                      /\ reqs[r].pc \in {"idle", "done"}) =>
        \A id \in DOMAIN db_cases : IsChain(HistoryOf(id))

\* The case of C7 with move_case requests only, on the case created before
\* they began.
C7_HistoryChainOfMoves ==
    (\A r \in Slots : /\ reqs[r].op \in {"idle", "move_case"}
                      /\ reqs[r].pc \in {"idle", "done"}) =>
        IsChain(HistoryOf(FirstCase))

\* C8: once a case has changed phase, its persisted previous_phase is the
\* value its persisted current_phase held immediately before the most recent
\* change, under any interleaving of the requests on the case.
C8_PreviousPhase ==
    \A id \in DOMAIN db_cases :
        before_change[id] # None =>
            db_cases[id].previous_phase = before_change[id]

(***************************************************************************)
(* Claims about the matcher (checked under SpecMatch)                      *)
(***************************************************************************)

\* key ends with suffix.
EndsWith(key, suffix) ==
    /\ Len(key) >= Len(suffix)
    /\ \A i \in 1..Len(suffix) : key[Len(key) - Len(suffix) + i] = suffix[i]

\* The comparison a filter key asks for ("eq": none), and its field name.
SuffixOf(key) ==
    CASE EndsWith(key, <<"_", "g", "t", "e">>) -> "gte"
      [] EndsWith(key, <<"_", "l", "t", "e">>) -> "lte"
      [] EndsWith(key, <<"_", "g", "t">>) -> "gt"
      [] EndsWith(key, <<"_", "l", "t">>) -> "lt"
      [] EndsWith(key, <<"_", "n", "e">>) -> "ne"
      [] OTHER -> "eq"

FieldOf(key) ==
    CASE SuffixOf(key) \in {"gte", "lte"} -> SubSeq(key, 1, Len(key) - 4)
      [] SuffixOf(key) \in {"gt", "lt", "ne"} -> SubSeq(key, 1, Len(key) - 3)
      [] OTHER -> key

\* The number a JSON number is (e * 2^53 + k as <<e, k>>), and the f64 it is
\* cast to.
NumberOf(v, cast) ==
    CASE DOMAIN v = {"num"} -> <<0, v.num>>
      [] DOMAIN v = {"float"} -> <<0, v.float>>
      [] DOMAIN v = {"big"} -> <<1, IF cast THEN RoundToF64(v.big) ELSE v.big>>

\* x < y for numbers, a < b for strings (lexicographic).
NumberBefore(x, y) == x[1] < y[1] \/ (x[1] = y[1] /\ x[2] < y[2])
StringBefore(a, b) == StrCmp(a, b, 1) = "Less"

\* before is the order "first below second" of two values: the relation rel.
InRelation(rel, below, above) ==
    CASE rel = "gt" -> above
      [] rel = "lt" -> below
      [] rel = "gte" -> ~below
      [] rel = "lte" -> ~above

\* An order filter on the event data: the field is there, both values are
\* numbers or both are strings, and the event value stands in the relation of
\* the key to the filter value (numbers cast to f64 first, when cast).
OrderEntryPasses(data, key, filter_value, cast) ==
    /\ IsObj(data)
    /\ FieldOf(key) \in DOMAIN data.obj
    /\ \/ /\ IsNumber(data.obj[FieldOf(key)]) /\ IsNumber(filter_value)
          /\ InRelation(SuffixOf(key),
                NumberBefore(NumberOf(data.obj[FieldOf(key)], cast),
                             NumberOf(filter_value, cast)),
                NumberBefore(NumberOf(filter_value, cast),
                             NumberOf(data.obj[FieldOf(key)], cast)))
       \/ /\ IsStr(data.obj[FieldOf(key)]) /\ IsStr(filter_value)
          /\ InRelation(SuffixOf(key),
                StringBefore(data.obj[FieldOf(key)].str, filter_value.str),
                StringBefore(filter_value.str, data.obj[FieldOf(key)].str))

\* One filter entry passes.
EntryPasses(data, key, filter_value) ==
    CASE SuffixOf(key) = "eq" ->
            /\ IsObj(data)
            /\ key \in DOMAIN data.obj
            /\ data.obj[key] = filter_value
      [] SuffixOf(key) = "ne" ->
            /\ IsObj(data)
            /\ FieldOf(key) \in DOMAIN data.obj
            /\ data.obj[FieldOf(key)] # filter_value
      [] OTHER -> OrderEntryPasses(data, key, filter_value, TRUE)

\* Every filter entry passes; filters that are null (or no object) have none.
FiltersPass(data, filters) ==
    IsObj(filters) =>
        \A key \in DOMAIN filters.obj : EntryPasses(data, key, filters.obj[key])

\* C24: match_flows returns a flow if and only if the flow is active, the
\* event's event_type equals the trigger's, and every filter entry passes (an
\* unsuffixed key passes iff the event data has the key with an equal
\* value); the flows returned keep the order of the list; null filters pass.
C24_MatchFlows ==
    exec.pc = "done" =>
        exec.result = SelectSeq(exec.flows, LAMBDA flow :
            /\ flow.active
            /\ exec.event.event_type = flow.trigger.event_type
            /\ FiltersPass(exec.event.data, flow.trigger.filters))

\* Two flows matched and came back in the order of the list, one of them
\* through an unsuffixed filter key, while an equal flow was left out of
\* another call for being inactive.
C24_Witness ==
    /\ exec.pc = "done"
    /\ Len(exec.flows) = 2
    /\ Len(exec.result) = 2
    /\ exec.result[1].id = 1
    /\ exec.result[2].id = 2
    /\ \E i \in 1..2 : /\ IsObj(exec.result[i].trigger.filters)
                       /\ FieldA \in DOMAIN exec.result[i].trigger.filters.obj

\* The flow at place i could match but for its one filter entry, whose key
\* has a comparison suffix.
OneComparison(i) ==
    /\ exec.flows[i].active
    /\ exec.flows[i].trigger.event_type = exec.event.event_type
    /\ IsObj(exec.flows[i].trigger.filters)
    /\ Cardinality(DOMAIN exec.flows[i].trigger.filters.obj) = 1
    /\ \A key \in DOMAIN exec.flows[i].trigger.filters.obj : SuffixOf(key) # "eq"

Returned(i) == \E j \in 1..Len(exec.result) : exec.result[j].id = exec.flows[i].id

\* What C25 says of the flows with one comparison entry, numbers compared as
\* they are (cast = FALSE) or as the f64 they are cast to (cast = TRUE).
ComparisonFilters(cast) ==
    exec.pc = "done" =>
        \A i \in 1..Len(exec.flows) :
            OneComparison(i) =>
                \A key \in DOMAIN exec.flows[i].trigger.filters.obj :
                    /\ ~HasField(exec.event.data, FieldOf(key)) => ~Returned(i)
                    /\ SuffixOf(key) # "ne" =>
                        (Returned(i) <=>
                            OrderEntryPasses(exec.event.data, key,
                                exec.flows[i].trigger.filters.obj[key], cast))

\* The order relation taken on the numbers as they are written does not
\* hold: two integers from 2^53 on that round to one f64 compare as equal.
OrderOfExactNumbers == ComparisonFilters(FALSE)

MatchedFlows ==
    SelectSeq(exec.db_flows, LAMBDA flow :
        /\ flow.active
        /\ exec.event.event_type = flow.trigger.event_type
        /\ FiltersPass(exec.event.data, flow.trigger.filters))

\* The entries of one kind of the trace.
OfKind(trace, kind) == SelectSeq(trace, LAMBDA e : e.kind = kind)

FlowIds(s) == [n \in 1..Len(s) |-> s[n].flow]

\* Between the begin of a flow and its end the trace has steps of that flow
\* only, and every step stands between the two.
OneAfterAnother(trace) ==
    \A p \in 1..Len(trace) :
        trace[p].kind # "begin" =>
            /\ p > 1
            /\ trace[p - 1].kind # "end"
            /\ trace[p - 1].flow = trace[p].flow

\* C26: event submission persists the event first, then runs each matched
\* flow exactly once, one after another in matcher order; matched_count is
\* the number of matched flows, the returned execution ids hold exactly one
\* id per matched flow (also when persisting an execution row fails), and an
\* event matching no flow yields matched_count 0 and no execution row.
C26_EventSubmission ==
    /\ exec.trace # <<>> => exec.event \in exec.db_events
    /\ IsPrefix(FlowIds(OfKind(exec.trace, "begin")),
                [n \in 1..Len(MatchedFlows) |-> MatchedFlows[n].id])
    /\ OneAfterAnother(exec.trace)
    /\ \A n \in 1..Len(exec.db_executions) :
          \E m \in 1..Len(OfKind(exec.trace, "end")) :
             /\ OfKind(exec.trace, "end")[m].execution = exec.db_executions[n].id
             /\ OfKind(exec.trace, "end")[m].flow = exec.db_executions[n].flow_id
    /\ (exec.pc = "responded" /\ exec.response.status = 200) =>
          /\ FlowIds(OfKind(exec.trace, "begin"))
                = [n \in 1..Len(MatchedFlows) |-> MatchedFlows[n].id]
          /\ FlowIds(OfKind(exec.trace, "end"))
                = [n \in 1..Len(MatchedFlows) |-> MatchedFlows[n].id]
          /\ exec.response.matched_flows = Len(MatchedFlows)
          /\ exec.response.executions
                = [n \in 1..Len(MatchedFlows) |-> OfKind(exec.trace, "end")[n].execution]
          /\ \A n, m \in 1..Len(exec.response.executions) :
                n # m => exec.response.executions[n] # exec.response.executions[m]
          /\ MatchedFlows = <<>> =>
                exec.response.matched_flows = 0 /\ exec.db_executions = <<>>

\* Two flows matched and ran, the row of an execution was not saved, and the
\* answer names both executions.
C26_Witness ==
    /\ exec.pc = "responded"
    /\ exec.response.status = 200
    /\ Len(MatchedFlows) = 2
    /\ Len(exec.db_flows) = 2
    /\ Len(exec.db_executions) = 1
    /\ Len(exec.response.executions) = 2

(***************************************************************************)
(* Claims about Executor::execute (checked under SpecFlow)                 *)
(***************************************************************************)

\* The steps executed so far, and the steps of the flow.
StepsRun == OfKind(exec.trace, "step")
FlowSteps == exec.matched[1].steps

FailedStop(e) == ~e.result.ok /\ e.step.on_failure = "stop"

\* C27: Executor::execute runs the steps in list order; the final status is
\* failed if and only if some step failed with on_failure = stop, and then
\* that step's error is recorded on the execution and no later step is
\* executed; a failing step with on_failure = continue does not stop the
\* flow, and an execution with only such failures ends completed with no
\* execution error.
C27_ExecuteSteps ==
    /\ Len(StepsRun) <= Len(FlowSteps)
    /\ \A n \in 1..Len(StepsRun) :
          /\ StepsRun[n].step = FlowSteps[n]
          /\ FailedStop(StepsRun[n]) => n = Len(StepsRun)
          /\ StepsRun[n].step.name \in DOMAIN exec.steps_status
          /\ exec.steps_status[StepsRun[n].step.name].status
                = IF StepsRun[n].result.ok THEN "completed" ELSE "failed"
    /\ exec.pc = "save_execution" =>
          /\ exec.execution.status \in {"failed", "completed"}
          /\ exec.execution.status = "failed"
                <=> \E n \in 1..Len(StepsRun) : FailedStop(StepsRun[n])
          /\ exec.execution.status = "failed" =>
                /\ exec.execution.error = Last(StepsRun).result.error
                /\ exec.execution.error # None
          /\ exec.execution.status = "completed" =>
                /\ Len(StepsRun) = Len(FlowSteps)
                /\ exec.execution.error = None

\* A flow of three steps ended failed after two: the first failed and the
\* flow went on, the second failed and stopped it.
C27_Witness ==
    /\ exec.pc = "save_execution"
    /\ Len(FlowSteps) = 3
    /\ Len(StepsRun) = 2
    /\ ~StepsRun[1].result.ok
    /\ StepsRun[1].step.on_failure = "continue"
    /\ FailedStop(StepsRun[2])
    /\ exec.execution.status = "failed"

\* The number a side of a condition stands for, <<>> when it is no number:
\* a decimal literal, or a reference to a field of the event data.
SideNumber(side, data) ==
    CASE side = <<"5">> -> <<<<0, 5>>>>
      [] side = <<"1", "0">> -> <<<<0, 10>>>>
      [] side = <<"-", "1">> -> <<<<0, 0 - 1>>>>
      [] side = RefA /\ HasField(data, FieldA) /\ IsNumber(data.obj[FieldA]) ->
            <<NumberOf(data.obj[FieldA], FALSE)>>
      [] side = RefB /\ HasField(data, FieldB) /\ IsNumber(data.obj[FieldB]) ->
            <<NumberOf(data.obj[FieldB], FALSE)>>
      [] OTHER -> <<>>

Blanks == {<<>>, <<" ">>, <<" ", " ">>}

\* The condition is LHS > RHS, both sides are numbers, LHS is the greater.
IsGreater(condition, data) ==
    \E left \in SideChoices, right \in SideChoices :
        /\ SideNumber(left, data) # <<>>
        /\ SideNumber(right, data) # <<>>
        /\ NumberBefore(SideNumber(right, data)[1], SideNumber(left, data)[1])
        /\ \E p1 \in Blanks, p2 \in Blanks, p3 \in Blanks, p4 \in Blanks :
              condition = p1 \o left \o p2 \o <<">">> \o p3 \o right \o p4

\* C28: a Condition step evaluates to true only when its condition has the
\* form LHS > RHS and both sides resolve to numbers with LHS greater than
\* RHS; every other condition string evaluates to false without an error,
\* so the if_false step is executed; exactly one of if_true / if_false runs.
C28_ConditionStep ==
    \A n \in 1..Len(StepsRun) :
        StepsRun[n].step.type = "condition" =>
            /\ StepsRun[n].result.entered
                  \in {<<StepsRun[n].step.name, StepsRun[n].step.if_true.name>>,
                       <<StepsRun[n].step.name, StepsRun[n].step.if_false.name>>}
            /\ StepsRun[n].result.entered[2] = StepsRun[n].step.if_true.name
                  => IsGreater(StepsRun[n].step.condition, exec.event.data)
            /\ ~IsGreater(StepsRun[n].step.condition, exec.event.data)
                  => StepsRun[n].result.entered[2] = StepsRun[n].step.if_false.name
            /\ (StepsRun[n].result.entered[2] = StepsRun[n].step.if_false.name
                   /\ StepsRun[n].step.if_false.type = "delay")
                  => StepsRun[n].result.ok

\* The condition ${event.data.a} > 5 sent a flow to if_true, the field being
\* 10.
C28_Witness ==
    /\ StepsRun # <<>>
    /\ StepsRun[1].step.type = "condition"
    /\ StepsRun[1].step.condition = RefA \o <<" ", ">", " ", "5">>
    /\ StepsRun[1].result.entered = <<StepName(1), IfTrueName(1)>>
    /\ exec.event.data.obj[FieldA] = JNum(10)

(***************************************************************************)
(* Claims about response chaining (checked under SpecExec)                 *)
(***************************************************************************)

\* The place in `ran` of the action at a path.
RanAt(ran, path) == CHOOSE j \in 1..Len(ran) : ran[j].path = path

\* The HTTP calls that stored a response under id before ran[j] was
\* executed: successful calls of an earlier webhook with that id, of the
\* same action list (same_list) or of the whole call.
StoredBefore(world, j, id, same_list) ==
    {m \in 1..Len(world.http) :
        /\ world.http[m].ok
        /\ world.ran[RanAt(world.ran, world.http[m].path)].action.id = id
        /\ RanAt(world.ran, world.http[m].path) < j
        /\ same_list => Front(world.http[m].path) = Front(world.ran[j].path)}

LastOf(S) == CHOOSE m \in S : \A o \in S : o <= m

\* The action at ran[j] failed without sending anything.
FailedUnsent(world, j) ==
    /\ \A m \in 1..Len(world.http) : world.http[m].path # world.ran[j].path
    /\ \E l \in 1..Len(world.log) :
          /\ world.log[l].path = world.ran[j].path
          /\ world.log[l].ev \in {"stop", "continue"}

\* Every webhook with use_response_from sends the response stored under that
\* id, and fails unsent when none is stored.
Chaining(world, same_list) ==
    \A j \in 1..Len(world.ran) :
        (world.ran[j].action.type = "webhook"
            /\ world.ran[j].action.use_response_from # None) =>
            IF StoredBefore(world, j, world.ran[j].action.use_response_from, same_list) = {}
            THEN FailedUnsent(world, j)
            ELSE /\ \E m \in 1..Len(world.http) : world.http[m].path = world.ran[j].path
                 /\ \A m \in 1..Len(world.http) :
                       world.http[m].path = world.ran[j].path =>
                          world.http[m].body = [resp |-> LastOf(StoredBefore(world, j,
                              world.ran[j].action.use_response_from, same_list))]

\* C29: within one execute_automations call, a webhook with
\* use_response_from = X sends as its body the response stored by an earlier
\* successfully executed webhook with id X of that call, whichever
\* PhaseAutomation of the batch that webhook belongs to; if no such response
\* was stored the action fails with an error.
C29_ResponseOfTheCall ==
    exec.pc = "done" => Chaining(exec.result.world, FALSE)

\* The same with the responses of the action list the webhook stands in
\* (the list of one PhaseAutomation, or of one branch) only.
C29_ResponseOfTheList ==
    exec.pc = "done" => Chaining(exec.result.world, TRUE)

\* A webhook sent the response of the webhook before it in its list.
C29_Chained ==
    /\ exec.pc = "done"
    /\ Len(exec.result.world.http) = 2
    /\ exec.result.world.http[2].body = [resp |-> 1]

(***************************************************************************)
(* Claims about the outbound case webhook (checked under SpecWebhook)      *)
(***************************************************************************)

\* What C30 says, `waits` being the seconds waited between the attempts of
\* a run whose attempts all fail.
CaseWebhookRetry(waits) ==
    /\ Len(exec.sends) <= 3
    /\ \A n \in 1..(Len(exec.sends) - 1) : ~exec.sends[n].ok
    /\ \A n \in 1..Len(exec.sends) :
          exec.sends[n].payload.data.to_phase = exec.case.current_phase
    /\ IsPrefix(exec.sleeps, waits)
    /\ exec.pc = "loop" =>
          /\ Len(exec.sleeps) = Len(exec.sends)
          /\ Len(exec.sends) < 3
          /\ exec.result.kind = "none"
    /\ exec.pc = "done" =>
          /\ exec.result.kind = "Ok" <=> Last(exec.sends).ok
          /\ exec.result.kind # "Ok" =>
                /\ exec.result = [kind |-> "Err", attempt |-> 3]
                /\ Len(exec.sends) = 3
                /\ exec.sleeps = waits

\* C30 as stated: the outbound case webhook (max_retries = 3) is sent at most
\* 3 times, stops at the first successful send, and waits with exponential
\* backoff 1 s, 2 s, 4 s between attempts; after the third failure it
\* returns the error without further sends.
C30_WaitsOneTwoFour == CaseWebhookRetry(<<1, 2, 4>>)

\* C30 amended: the same with the waits 1 s (after the first failed attempt)
\* and 2 s (after the second); the third failure returns at once.
C30_CaseWebhookRetry == CaseWebhookRetry(<<1, 2>>)

\* Three sends failed with waits of 1 s and 2 s between them, and the error
\* of the third was returned.
C30_Witness ==
    /\ exec.pc = "done"
    /\ exec.result = [kind |-> "Err", attempt |-> 3]
    /\ Len(exec.sends) = 3
    /\ exec.sleeps = <<1, 2>>

(***************************************************************************)
(* Claims about create_workflow (checked under SpecWorkflow)               *)
(***************************************************************************)

\* create_case has answered 201 for a case in the initial phase of a
\* workflow whose create_workflow payload carried the on_enter automation
\* of Review.
CreatedInReview(r) ==
    /\ reqs[r].op = "create_case" /\ reqs[r].pc = "done" /\ reqs[r].status = 201
    /\ exec.status = 201
    /\ exec.payload.automations # <<>>
    /\ reqs[r].to_phase = "Review"

\* C31: a case created in a workflow that create_workflow stored with an
\* on_enter automation on its initial phase Review (a conditional that
\* queues the move to Approved) ends in Approved with exactly two history
\* rows: the creation row and the row of the on_enter move.
C31_CreatedWorkflowAutomationRuns ==
    \A r \in Slots :
        CreatedInReview(r) =>
            /\ db_cases[r].current_phase = "Approved"
            /\ HistoryOf(r) =
                <<CaseHistory(r, None, "Review", "Case created", "system", 0),
                  CaseHistory(r, "Review", "Approved", "on_enter automation",
                              "system", 0)>>

(***************************************************************************)
(* Claims about phase_entered_at (checked under Spec)                      *)
(***************************************************************************)

\* update_phase of a user move sets phase_entered_at to a later time than
\* the row held.
UpdatePhaseAdvances(r) ==
    MoveUpdatePhase(r) =>
        db_cases'[reqs[r].case_id].phase_entered_at
            > db_cases[reqs[r].case_id].phase_entered_at

\* The UPDATE of an applied MoveToPhase sets phase_entered_at to a later
\* time than the row held, as the transaction sees the row.
AppliedMoveAdvances(r) ==
    (TxApply(r) /\ Len(db_history') > Len(db_history)) =>
        reqs'[r].tx_row.phase_entered_at > TxRow(r).phase_entered_at

\* C32: every successful phase change, update_phase of a user move and each
\* MoveToPhase applied by apply_automation_modifications (consecutive ones
\* of one transaction included), sets phase_entered_at to a value strictly
\* greater than the value before the change.
C32_PhaseEnteredAtAdvances ==
    [][\A r \in Slots : UpdatePhaseAdvances(r) /\ AppliedMoveAdvances(r)]_vars

\* The part of C32 about user moves.
C32_UpdatePhaseAdvances == [][\A r \in Slots : UpdatePhaseAdvances(r)]_vars

(***************************************************************************)
(* Claims about execution rows (checked under SpecEvent)                   *)
(***************************************************************************)

\* The flow whose run is under way, if any.
RunningFlow == IF exec.pc = "step" THEN {exec.execution.flow_id} ELSE {}

\* C33: an execution row is persisted at most once per run of a matched
\* flow for the event, and only after the flow finished: every row has the
\* status completed or failed and completed_at set, and there is no row for
\* a flow that is still running.
C33_ExecutionRows ==
    /\ \A n, m \in 1..Len(exec.db_executions) :
          (/\ exec.db_executions[n].flow_id = exec.db_executions[m].flow_id
           /\ exec.db_executions[n].event_id = exec.db_executions[m].event_id)
             => n = m
    /\ \A n \in 1..Len(exec.db_executions) :
          /\ exec.db_executions[n].status \in {"completed", "failed"}
          /\ exec.db_executions[n].completed_at # <<>>
          /\ exec.db_executions[n].flow_id \notin RunningFlow
          /\ \E m \in 1..Len(exec.trace) :
                /\ exec.trace[m].kind = "end"
                /\ exec.trace[m].execution = exec.db_executions[n].id

\* The row of a failed flow is stored while the next matched flow runs.
C33_Witness ==
    /\ exec.pc = "step"
    /\ Len(exec.db_executions) = 1
    /\ exec.db_executions[1].status = "failed"
    /\ exec.db_executions[1].completed_at # <<>>
    /\ exec.execution.status = "running"

(***************************************************************************)
(* Claims about concurrent requests on one case (checked under Spec)       *)
(***************************************************************************)

\* The UPDATE and the history row of an applied MoveToPhase name the phase
\* the row held when the UPDATE took effect.
FromPhaseIsPhaseBefore(r) ==
    (TxApply(r) /\ Len(db_history') > Len(db_history)) =>
        /\ Last(db_history').from_phase = TxRow(r).current_phase
        /\ reqs'[r].tx_row.previous_phase = TxRow(r).current_phase

\* C34: for every MoveToPhase that apply_automation_modifications applies,
\* the from_phase of its history row and the previous_phase it writes equal
\* the current_phase the case held immediately before that update took
\* effect, whatever move_case and apply calls run at the same time.
C34_FromPhaseIsPhaseBefore ==
    [][\A r \in Slots : FromPhaseIsPhaseBefore(r)]_vars

\* The same while no other request is being served.
C34_FromPhaseAlone ==
    [][\A r \in Slots : Alone(r) => FromPhaseIsPhaseBefore(r)]_vars

(***************************************************************************)
(* Claims about the two retry loops (checked under SpecRetry)              *)
(***************************************************************************)

\* The calls that failed in the finished run of RetryExecutor::execute.
FailedCalls ==
    IF retry.result.kind = "ok" THEN 1..(retry.calls - 1) ELSE 1..retry.calls

\* execute_webhook_with_retry run against an endpoint that fails the calls
\* in `fails`, with max_attempts and delay_ms of the retry configuration.
WebhookRun(fails) ==
    execute_webhook_with_retry(NewWorld(fails), <<1>>, JNull,
                               retry.config.max_attempts,
                               retry.config.initial_delay_ms)

\* The webhook loop, given the failures the run of RetryExecutor::execute
\* met (and whatever a further call would meet), makes the same number of
\* calls, sleeps the same delays and returns the result of the same call.
LoopsAgree ==
    \A fails \in {FailedCalls, FailedCalls \cup {retry.calls + 1}} :
        /\ WebhookRun(fails).world.calls = retry.calls
        /\ WebhookRun(fails).world.sleeps = retry.sleeps
        /\ WebhookRun(fails).ok = (retry.result.kind = "ok")
        /\ WebhookRun(fails).ok => WebhookRun(fails).response.resp = retry.result.from

\* C35: execute_webhook_with_retry(max_attempts, delay_ms) and
\* RetryExecutor::execute with the same max_attempts and fixed backoff of
\* delay_ms make the same number of calls, sleep the same delays and return
\* the same success or last error, for every max_attempts (0 included) and
\* every pattern of failing calls.
C35_RetryLoopsAgree ==
    (retry.pc = "done" /\ retry.config.backoff = "fixed") => LoopsAgree

\* The same for max_attempts >= 1 and a delay within the cap.
C35_RetryLoopsAgreeWithinCap ==
    (/\ retry.pc = "done" /\ retry.config.backoff = "fixed"
     /\ retry.config.max_attempts >= 1
     /\ retry.config.initial_delay_ms <= MaxDelayMs) => LoopsAgree

(***************************************************************************)
(* Claims about response ids and conditionals (checked under SpecExec)     *)
(***************************************************************************)

\* The action at path p stands in a list that encloses the list of the
\* action at path q: q is inside a branch of a conditional of p's list.
Encloses(p, q) == IsPrefix(Front(p), Front(q)) /\ Front(p) # Front(q)

\* The successful calls before ran[j] that stored a response under id on
\* the other side of a conditional boundary: in an enclosing list, or inside
\* a branch of an earlier conditional of the list of ran[j].
StoredAcross(world, j, id) ==
    {m \in StoredBefore(world, j, id, FALSE) :
        \/ Encloses(world.http[m].path, world.ran[j].path)
        \/ Encloses(world.ran[j].path, world.http[m].path)}

\* C36: response ids do not cross a conditional boundary: a webhook with
\* use_response_from = X inside a branch fails when X was stored only by a
\* webhook of the enclosing list, and a webhook with use_response_from = Y
\* fails when Y was stored only inside the branch of an earlier conditional
\* of its list; in both cases nothing is sent.
C36_ResponsesStayInTheirList ==
    exec.pc = "done" =>
        \A j \in 1..Len(ExecRan) :
            (/\ ExecRan[j].action.type = "webhook"
             /\ ExecRan[j].action.use_response_from # None
             /\ StoredBefore(exec.result.world, j,
                             ExecRan[j].action.use_response_from, TRUE) = {}
             /\ StoredAcross(exec.result.world, j,
                             ExecRan[j].action.use_response_from) # {})
                => FailedUnsent(exec.result.world, j)

\* One run with both directions: X stored by the enclosing list and asked
\* for inside the branch, Y stored inside the branch and asked for after the
\* conditional; both webhooks failed without a call.
C36_Witness ==
    /\ exec.pc = "done"
    /\ \E j, k \in 1..Len(ExecRan) :
          /\ ExecRan[j].path = <<1, 2, 1>>
          /\ ExecRan[j].action.use_response_from = "X"
          /\ StoredAcross(exec.result.world, j, "X") # {}
          /\ FailedUnsent(exec.result.world, j)
          /\ ExecRan[k].path = <<1, 3>>
          /\ ExecRan[k].action.use_response_from = "Y"
          /\ StoredAcross(exec.result.world, k, "Y") # {}
          /\ FailedUnsent(exec.result.world, k)

(***************************************************************************)
(* Claims about termination of the handlers (checked under FairSpec)       *)
(***************************************************************************)

\* The calls of execute_and_apply_automations request r made for a stage.
Batches(r, stage) ==
    Len(SelectSeq(reqs[r].steps, LAMBDA e : e.step = "run" /\ e.stage = stage))

\* create_case runs at most one on_enter batch and no on_exit batch,
\* move_case at most one of each.
BatchesBounded ==
    \A r \in Slots :
        /\ Batches(r, "on_enter") <= 1
        /\ Batches(r, "on_exit") <= (IF reqs[r].op = "move_case" THEN 1 ELSE 0)

\* C37: every create_case and move_case request terminates, also when the
\* automations hold MoveToPhase actions that form a cycle between phases:
\* create_case runs at most one on_enter batch, move_case at most one
\* on_exit and one on_enter batch, and a phase entered by an automation move
\* starts no further batch.
C37_HandlersTerminate ==
    /\ []BatchesBounded
    /\ \A r \in Slots :
          (reqs[r].op \in {"create_case", "move_case"}) ~> (reqs[r].pc = "done")

\* A move_case in the workflow with the cycle has answered after its
\* on_enter batch moved the case on.
C37_Witness ==
    \E r \in Slots :
        /\ db_workflow.automations = <<AutomationsCycle>>
        /\ reqs[r].op = "move_case" /\ reqs[r].pc = "done" /\ reqs[r].status = 200
        /\ Batches(r, "on_enter") = 1
        /\ \E i \in 1..Len(reqs[r].steps) :
              reqs[r].steps[i].step = "apply" /\ reqs[r].steps[i].entered # {}

(***************************************************************************)
(* Claims about interpolate_string (checked under SpecInterpolate)         *)
(***************************************************************************)

RECURSIVE Placeholders(_)
\* The placeholders of a text: every "${" with a '}' after it, from left to
\* right, each beginning after the end of the one before.
Placeholders(text) ==
    LET start == FindDollarBrace(text)
        end == IF start = 0 THEN 0
               ELSE FindChar(SubSeq(text, start, Len(text)), "}")
    IN IF start = 0 \/ end = 0 THEN 0
       ELSE 1 + Placeholders(SubSeq(text, start + end, Len(text)))

RECURSIVE ReplacedOnce(_, _)
\* The template with each of its placeholders replaced once by its value,
\* all other text kept, and the values themselves left as they are.
ReplacedOnce(text, event) ==
    LET start == FindDollarBrace(text)
        end == IF start = 0 THEN 0
               ELSE FindChar(SubSeq(text, start, Len(text)), "}")
    IN IF start = 0 \/ end = 0 THEN text
       ELSE SubSeq(text, 1, start - 1)
            \o ValueOf(SubSeq(text, start + 2, start + end - 2), event)
            \o ReplacedOnce(SubSeq(text, start + end, Len(text)), event)

\* The loop takes a turn for each placeholder of the template at most, and
\* returns the template with each placeholder replaced once.
InterpolatesOnce ==
    /\ exec.turns <= Placeholders(exec.template)
    /\ exec.pc = "done" => exec.result = ReplacedOnce(exec.template, exec.event)

\* No value of the event data holds the text "${".
PlainValues ==
    \A field \in {FieldA, FieldB} :
        FindDollarBrace(Rendering(GetOrNull(exec.event.data, field))) = 0

\* C38: interpolate_string terminates for every template and every event
\* data: it replaces each placeholder of the template once by the rendering
\* of the field and keeps all other text, and it terminates without
\* expanding any further when a substituted value itself holds the text of
\* a placeholder.
C38_InterpolatesOnce == InterpolatesOnce

\* The same for event data whose values hold no "${".
C38_InterpolatesPlainValues == PlainValues => InterpolatesOnce

(***************************************************************************)
(* Claims about the case the conditions read (checked under SpecExec)      *)
(***************************************************************************)

\* Every executed conditional went the way its condition goes on `case`: no
\* action under it when the condition fails to evaluate, else actions of the
\* selected branch only, the first of them whenever the branch has one.
BranchesFollow(ran, case) ==
    /\ OnlyTakenBranchRan(ran, case)
    /\ \A i \in 1..Len(ran) :
          ran[i].action.type = "conditional" =>
              (TakenBranch(ran[i].action, case) # <<>>)
                  = (RanUnder(ran, ran[i].path) # <<>>)

\* C39: during one execute_automations call every condition is evaluated
\* against the case snapshot passed to the call: a SetField or MoveToPhase
\* queued by an earlier action of the batch does not change what a later
\* conditional reads for data.*, current_phase or previous_phase.
C39_ConditionsReadTheSnapshot ==
    exec.pc = "done" => BranchesFollow(ExecRan, exec.case)

\* A batch queued data.amount = 20000 and then took the else branch of
\* `data.amount > 10000`, which the queued value would have made true.
C39_Witness ==
    /\ exec.pc = "done"
    /\ exec.result.ok
    /\ exec.result.modifications
          = <<ModSetField(<<"data", "amount">>, JNum(20000)), ModMoveToPhase("C")>>
    /\ \E i \in 1..Len(ExecRan) :
          /\ ExecRan[i].action.type = "conditional"
          /\ ~evaluate_condition(ExecRan[i].action.condition, exec.case).val
          /\ evaluate_condition(ExecRan[i].action.condition,
                CaseWithQueued(exec.case, <<Head(exec.result.modifications)>>)).val

(***************************************************************************)
(* Claims about a batch that returns an error (checked under SpecStop)     *)
(***************************************************************************)

\* The batch of request r stopped with an error, and
\* execute_and_apply_automations has returned to the handler: no transaction
\* is begun, nothing is left to apply, and no row of the database changed.
NothingApplied(r) ==
    (RunAutomations(r) /\ reqs'[r].batch_stopped) =>
        /\ reqs'[r].pc \in {"run", "spawn"}
        /\ reqs'[r].mods = <<>>
        /\ Last(reqs'[r].steps).step = "run"
        /\ UNCHANGED <<db_cases, db_history, db_lock>>

\* C40: if execute_automations returns an error for a batch, none of the
\* modifications queued before the failing action, by earlier actions of
\* the same automation or by earlier automations of the batch, is applied:
\* the case row and its history are the same after
\* execute_and_apply_automations as before it.
C40_FailedBatchAppliesNothing ==
    [][\A r \in Slots :
        /\ NothingApplied(r)
        /\ RunAutomations(r) => (reqs'[r].batch_stopped = reqs'[r].batch_failed)]_vars

\* A create_case whose on_enter batch queued a move and a field write and
\* then stopped has answered; the case is where it was created, with its
\* creation row only.
C40_Witness ==
    \E r \in Slots :
        /\ reqs[r].op = "create_case" /\ reqs[r].pc = "done" /\ reqs[r].status = 201
        /\ reqs[r].batch_stopped
        /\ reqs[r].calls = 1
        /\ db_cases[r].current_phase = "B"
        /\ db_cases[r].data = AmountData
        /\ HistoryOf(r) = <<CaseHistory(r, None, "B", "Case created", "system", 0)>>

====
